---------------------------- MODULE Spec2Model ----------------------------
(***************************************************************************)
(* A model of the event-sourced resolution engine of hedera-did-sdk-js:    *)
(* key/codec utilities, the event decoder (HcsDidEventParser), the topic   *)
(* listener (HcsDidTopicListener), the resolver                            *)
(* (HcsDidEventMessageResolver) and the HcsDid operations that drive them. *)
(*                                                                         *)
(* Conventions.  A JavaScript function that can throw is an operator that  *)
(* returns a result record [ok, val]: ok = FALSE stands for a thrown       *)
(* exception, and a try/catch is an IF on ok.  An absent JSON field        *)
(* (undefined / null / "") is the string Null.  Byte arrays are sequences  *)
(* of numbers 0..255.                                                      *)
(***************************************************************************)
EXTENDS Integers, Sequences, FiniteSets, TLC

VARIABLES
    \* ---- event codec pipeline (ParserSpec) ----
    pStage,       \* "idle" | "args" | "built" | "encoded" | "decoded" | "raw" | "parsed"
    pArgs,        \* constructor arguments of the event under test
    pEvent,       \* result of the constructor
    pOp,          \* the operation the payload is decoded under
    pVia,         \* "base64" (fromBase64) or "json" (fromJson)
    pWire,        \* the payload handed to the decoder
    pDecoded,     \* result of the decoder
    \* ---- a stand-alone HcsDidTopicListener (ListenerSpec) ----
    lStage,       \* "idle" | "new" | "fetching" | "returned" | "rejected"
    lCfg,         \* topicId, errorHandler, ignoreErrors, invalidMessageHandler, filters
    lFetch,       \* what the mirror answered
    lRun,         \* what subscribe() did: receiver calls, invalid reports, error calls
    \* ---- HcsDidEventMessageResolver (Spec, LiveSpec) ----
    rStage,                      \* "idle" | "live"
    now,                         \* Date.now(), as far as Long.fromInt lets it through
    messages,                    \* this.messages
    existingSignatures,          \* this.existingSignatures
    lastMessageArrivalTime,      \* this.lastMessageArrivalTime
    nextMessageArrivalTimeout,   \* the wake-up timer: [pending, remaining, others]
    noMoreMessagesTimeout,       \* this.noMoreMessagesTimeout
    resultsHandler,              \* whether whenFinished() registered a handler
    errorHandler,                \* "none" | "user" | "reject" (HcsDid.resolve's)
    listenerErrorHandler,        \* the handler execute() installed on the listener
    calls,                       \* one record per execute() call
    finished,                    \* the argument of each results-handler call
    errorCalls,                  \* number of calls of the resolver's error handler
    didPromise,                  \* the promise of HcsDid.resolve()
    \* ---- HcsDid.register / changeOwner (OwnerSpec) ----
    oStage,       \* position inside register() / changeOwner()
    privateKey,   \* this.privateKey
    oRegistered,  \* whether this.identifier is set
    oArgs,        \* arguments of the changeOwner() call in progress
    oHeldBefore,  \* the private key held when changeOwner() was called
    oTopicKeys,   \* admin/submit key of the topic
    oTopic,       \* messages submitted to the topic, with the key that signed each
    \* ---- DidDocument.processMessages (FoldSpec) ----
    dStage,       \* "idle" | "folding"
    dLog,         \* the messages folded so far, in order
    dDoc,         \* the document after them
    \* ---- a call of a pure utility function (UtilSpec) ----
    uStage,       \* "idle" | "input" | "done"
    uCall,        \* the function called and its arguments
    uResult,      \* what it returned, or that it threw
    \* ---- HcsDidTransaction (TransactionSpec) ----
    tStage,                    \* "idle" | "live"
    executed,                  \* this.executed
    signer,                    \* whether signMessage() set this.signer
    buildTransactionFunction,  \* whether buildAndSignTransaction() set it
    transactionErrorHandler,   \* whether onError() set this.errorHandler
    messageSignature,          \* whether this.message carries a signature
    tCalls                     \* one record per execute() call

parserVars == <<pStage, pArgs, pEvent, pOp, pVia, pWire, pDecoded>>

listenerVars == <<lStage, lCfg, lFetch, lRun>>

resolverVars ==
    <<rStage, now, messages, existingSignatures, lastMessageArrivalTime,
      nextMessageArrivalTimeout, noMoreMessagesTimeout, resultsHandler, errorHandler,
      listenerErrorHandler, calls, finished, errorCalls, didPromise>>

ownerVars == <<oStage, privateKey, oRegistered, oArgs, oHeldBefore, oTopicKeys, oTopic>>

docVars == <<dStage, dLog, dDoc>>

utilVars == <<uStage, uCall, uResult>>

txVars ==
    <<tStage, executed, signer, buildTransactionFunction, transactionErrorHandler,
      messageSignature, tCalls>>

vars == <<parserVars, listenerVars, resolverVars, ownerVars, docVars, utilVars, txVars>>

Null == "null"

Ok(v) == [ok |-> TRUE, val |-> v]
Err == [ok |-> FALSE, val |-> Null]

Min(a, b) == IF a <= b THEN a ELSE b

\* F(v) with v computed once: a local constant of the code whose value is
\* used several times
Bind(v, F(_)) == CHOOSE r \in {F(x) : x \in {v}} : TRUE

(***************************************************************************)
(* The module holds several specifications over one set of variables; a    *)
(* specification leaves the components it does not drive at these values.  *)
(***************************************************************************)
NoListenerCfg ==
    [topicId |-> Null, errorHandler |-> FALSE, ignoreErrors |-> FALSE,
     invalidMessageHandler |-> FALSE, filters |-> <<>>]

NoFetch == [status |-> Null, messages |-> <<>>]

NoRun ==
    [received |-> <<>>, invalid |-> <<>>, reported |-> <<>>, errors |-> 0,
     handled |-> 0, filterCalls |-> 0, thrown |-> FALSE]

NoTimer == [pending |-> FALSE, remaining |-> 0, others |-> <<>>]

ListenerIdle ==
    /\ lStage = "idle" /\ lCfg = NoListenerCfg /\ lFetch = NoFetch /\ lRun = NoRun

ResolverIdle ==
    /\ rStage = "idle" /\ now = 0 /\ messages = <<>> /\ existingSignatures = <<>>
    /\ lastMessageArrivalTime = 0 /\ nextMessageArrivalTimeout = NoTimer
    /\ noMoreMessagesTimeout = 0 /\ resultsHandler = FALSE /\ errorHandler = "none"
    /\ listenerErrorHandler = "none" /\ calls = <<>> /\ finished = <<>>
    /\ errorCalls = 0 /\ didPromise = "none"

OwnerIdle ==
    /\ oStage = "idle" /\ privateKey = Null /\ oRegistered = FALSE
    /\ oArgs = [controller |-> Null, newPrivateKey |-> Null]
    /\ oHeldBefore = Null /\ oTopicKeys = Null /\ oTopic = <<>>

DocIdle == dStage = "idle" /\ dLog = <<>> /\ dDoc = Null

UtilIdle == uStage = "idle" /\ uCall = Null /\ uResult = Null

TxIdle ==
    /\ tStage = "idle" /\ executed = FALSE /\ signer = FALSE
    /\ buildTransactionFunction = FALSE /\ transactionErrorHandler = FALSE
    /\ messageSignature = FALSE /\ tCalls = <<>>

(***************************************************************************)
(* Key type and key format names (hcs-did-key-type, imported by            *)
(* crypto-utils.ts:7).                                                     *)
(***************************************************************************)
ED25519_KEY_TYPE == "Ed25519VerificationKey2020"
ECDSA_SECP256K1_KEY_TYPE == "EcdsaSecp256k1VerificationKey2020"
JSON_WEB_KEY_TYPE == "JsonWebKey2020"

(***************************************************************************)
(* Byte arrays used as key material.                                       *)
(***************************************************************************)
Ed25519KeyLen == 32
Secp256k1CompressedLen == 33
Secp256k1UncompressedLen == 65

Fill(n, b) == [i \in 1..n |-> b]

\* slice(from, to) of a JavaScript typed array: 0-based, end exclusive, clamped.
Slice(data, from, to) ==
    IF from >= Min(to, Len(data)) THEN <<>>
    ELSE SubSeq(data, from + 1, Min(to, Len(data)))

SliceFrom(data, from) == Slice(data, from, Len(data))

(***************************************************************************)
(* crypto-utils.ts: multicodec prefixes.                                   *)
(***************************************************************************)
MULTICODECS ==
    [c \in {"secp256k1-priv", "secp256k1-pub", "ed25519-priv", "ed25519-pub"} |->
        CASE c = "secp256k1-priv" -> <<129, 38>>
          [] c = "secp256k1-pub"  -> <<231, 1>>
          [] c = "ed25519-priv"   -> <<128, 38>>
          [] c = "ed25519-pub"    -> <<237, 1>>]

addMulticodecPrefix(multicodec, data) ==
    IF multicodec \in DOMAIN MULTICODECS
    THEN Ok(MULTICODECS[multicodec] \o data)
    ELSE Err

removeMulticodecPrefix(multicodec, data) ==
    IF multicodec \notin DOMAIN MULTICODECS THEN Err
    ELSE LET prefix == MULTICODECS[multicodec]
             prefixLength == Len(prefix)
             head == Slice(data, 0, prefixLength)
         IN  IF ~(\A i \in 1..Len(head) : head[i] = prefix[i])
             THEN Err
             ELSE Ok(SliceFrom(data, prefixLength))

(***************************************************************************)
(* multiformats base58btc: encode prepends the multibase letter "z";       *)
(* decode fails on any other first letter.  The base-58 digits themselves  *)
(* are a bijection of the bytes and are kept as the bytes.                 *)
(***************************************************************************)
NoMultibase == [mb |-> Null, bytes |-> <<>>]

base58btcEncode(bytes) == [mb |-> "z", bytes |-> bytes]

base58btcDecode(str) == IF str.mb = "z" THEN Ok(str.bytes) ELSE Err

(***************************************************************************)
(* crypto-utils.ts: key encoders and key type detection.                   *)
(***************************************************************************)
getPublicKeyBase58ForEd25519(publicKey) ==
    IF Len(publicKey) # Ed25519KeyLen THEN Err
    ELSE Ok(base58btcEncode(addMulticodecPrefix("ed25519-pub", publicKey).val))

\* y[y.length - 1] % 2 === 0 ? 0x02 : 0x03, where an empty y gives NaN, hence 0x03.
ParityPrefix(y) == IF Len(y) > 0 /\ y[Len(y)] % 2 = 0 THEN 2 ELSE 3

getCompressedPublicKey(uncompressedKey) ==
    LET x == Slice(uncompressedKey, 1, 33)
        y == SliceFrom(uncompressedKey, 33)
    IN  <<ParityPrefix(y)>> \o x

getPublicKeyBase58ForSecp256k1(publicKey) ==
    IF Len(publicKey) > 0 /\ publicKey[1] = 4
    THEN Ok(base58btcEncode(
            addMulticodecPrefix("secp256k1-pub", getCompressedPublicKey(publicKey)).val))
    ELSE IF Len(publicKey) > 0 /\ publicKey[1] \in {2, 3}
    THEN Ok(base58btcEncode(addMulticodecPrefix("secp256k1-pub", publicKey).val))
    ELSE Err

isValidCompressedOrUncompressedSecp256k1Key(key) ==
    \/ Len(key) = Secp256k1CompressedLen /\ key[1] \in {2, 3}
    \/ Len(key) = Secp256k1UncompressedLen /\ key[1] = 4

\* Detection by length alone: the first byte of the key is not looked at.
detectKeyTypeByLength(publicKeyBytes) ==
    IF Len(publicKeyBytes) = Ed25519KeyLen THEN Ok("Ed25519")
    ELSE IF Len(publicKeyBytes) \in {Secp256k1CompressedLen, Secp256k1UncompressedLen}
    THEN Ok("Secp256k1")
    ELSE Err

detectKeyTypeFromPublicKeyBytes(publicKeyBytes) ==
    IF Len(publicKeyBytes) = Ed25519KeyLen THEN Ok("Ed25519")
    ELSE IF Len(publicKeyBytes) = Secp256k1CompressedLen /\ publicKeyBytes[1] \in {2, 3}
    THEN Ok("Secp256k1")
    ELSE IF Len(publicKeyBytes) = Secp256k1UncompressedLen /\ publicKeyBytes[1] = 4
    THEN Ok("Secp256k1")
    ELSE Err

\* A PublicKey object of the ledger SDK is its curve and its raw bytes.
NoKey == [curve |-> Null, raw |-> <<>>]

\* publicKey.toBytesRaw() of the ledger SDK
toBytesRaw(publicKey) == publicKey.raw

detectKeyTypeFromPublicKey(publicKey) ==
    LET publicKeyBytes == toBytesRaw(publicKey)
    IN  IF Len(publicKeyBytes) = Ed25519KeyLen THEN Ok("Ed25519")
        ELSE IF Len(publicKeyBytes) = Secp256k1CompressedLen /\ publicKeyBytes[1] \in {2, 3}
        THEN Ok("Secp256k1")
        ELSE IF Len(publicKeyBytes) = Secp256k1UncompressedLen /\ publicKeyBytes[1] = 4
        THEN Ok("Secp256k1")
        ELSE Err

compressSecp256k1PublicKey(uncompressedKey) ==
    IF Len(uncompressedKey) # Secp256k1UncompressedLen \/ uncompressedKey[1] # 4
    THEN Err
    ELSE LET x == Slice(uncompressedKey, 1, 33)
             y == SliceFrom(uncompressedKey, 33)
         IN  Ok(<<ParityPrefix(y)>> \o x)

getPublicKeyMultibaseString(keyType, publicKeyBytes) ==
    IF keyType = ECDSA_SECP256K1_KEY_TYPE THEN getPublicKeyBase58ForSecp256k1(publicKeyBytes)
    ELSE IF keyType = ED25519_KEY_TYPE THEN getPublicKeyBase58ForEd25519(publicKeyBytes)
    ELSE Err


(***************************************************************************)
(* JSON Web Keys.  createJWK and isJWK are the library capability          *)
(* (@veramo/utils); the curve arithmetic that recovers y from a compressed *)
(* point is kept only as far as the code reads it: the parity of y's last  *)
(* byte.  The base64url digits of x and y are kept as the bytes.           *)
(***************************************************************************)
NoJwk == [kind |-> Null, kty |-> Null, crv |-> Null, x |-> <<>>, y |-> <<>>]

DecompressY(prefix) == Fill(31, 0) \o <<prefix - 2>>

createJWK(keyType, bytes) ==
    IF keyType = "Ed25519"
    THEN Ok([kind |-> "jwk", kty |-> "OKP", crv |-> "Ed25519", x |-> bytes, y |-> <<>>])
    ELSE IF keyType = "Secp256k1" /\ Len(bytes) = Secp256k1CompressedLen /\ bytes[1] \in {2, 3}
    THEN Ok([kind |-> "jwk", kty |-> "EC", crv |-> "secp256k1",
             x |-> Slice(bytes, 1, 33), y |-> DecompressY(bytes[1])])
    ELSE IF keyType = "Secp256k1" /\ Len(bytes) = Secp256k1UncompressedLen /\ bytes[1] = 4
    THEN Ok([kind |-> "jwk", kty |-> "EC", crv |-> "secp256k1",
             x |-> Slice(bytes, 1, 33), y |-> SliceFrom(bytes, 33)])
    ELSE Err

getPublicKeyFromJWK(jwk) ==
    IF jwk.kind # "jwk" THEN Err
    ELSE IF jwk.crv \in {"secp256k1", "P-256"}
    THEN IF jwk.kty # "EC" \/ jwk.x = <<>> \/ jwk.y = <<>> THEN Err
         ELSE Ok(<<4>> \o jwk.x \o jwk.y)
    ELSE IF jwk.crv \in {"Ed25519", "X25519"}
    THEN IF jwk.kty # "OKP" \/ jwk.x = <<>> THEN Err ELSE Ok(jwk.x)
    ELSE Err

(***************************************************************************)
(* The JSON shape of one event definition (spec section 6): every field    *)
(* the decoders read; Null / NoMultibase / NoJwk stand for an absent       *)
(* field.  A null or empty subtree is the tree with every field absent.    *)
(***************************************************************************)
AbsentTree ==
    [id |-> Null, type |-> Null, controller |-> Null,
     publicKeyMultibase |-> NoMultibase, publicKeyJwk |-> NoJwk,
     relationshipType |-> Null, serviceEndpoint |-> Null]

(***************************************************************************)
(* crypto-utils.ts: generateDefinition and parsePublicKey.                 *)
(***************************************************************************)
generateDefinition(id, keyType, controller, publicKeyMultibaseOrBytes, publicKeyFormat) ==
    IF publicKeyFormat = JSON_WEB_KEY_TYPE
    THEN IF publicKeyMultibaseOrBytes.isString THEN Err
         ELSE LET jwk == createJWK(keyType, publicKeyMultibaseOrBytes.bytes)
              IN  IF ~jwk.ok THEN Err
                  ELSE Ok([AbsentTree EXCEPT !.id = id, !.type = publicKeyFormat,
                               !.controller = controller, !.publicKeyJwk = jwk.val])
    ELSE IF ~publicKeyMultibaseOrBytes.isString THEN Err
         ELSE Ok([AbsentTree EXCEPT !.id = id, !.type = publicKeyFormat,
                      !.controller = controller,
                      !.publicKeyMultibase = publicKeyMultibaseOrBytes.str])

\* The key the ledger SDK builds from well-formed bytes of a curve.
PublicKeyFromBytesECDSA(bytes) == [curve |-> "ECDSA", raw |-> bytes]
PublicKeyFromBytesED25519(bytes) == [curve |-> "ED25519", raw |-> bytes]

parsePublicKey(tree) ==
    LET publicKeyFormat == IF tree.type # Null THEN tree.type ELSE ED25519_KEY_TYPE
        decoded == base58btcDecode(tree.publicKeyMultibase)
        publicKeyBytes ==
            IF tree.publicKeyMultibase.mb # Null
            THEN IF ~decoded.ok THEN Err
                 ELSE IF publicKeyFormat = ECDSA_SECP256K1_KEY_TYPE
                 THEN removeMulticodecPrefix("secp256k1-pub", decoded.val)
                 ELSE IF publicKeyFormat = ED25519_KEY_TYPE
                 THEN removeMulticodecPrefix("ed25519-pub", decoded.val)
                 ELSE Err
            ELSE IF tree.publicKeyJwk.kind # Null
            THEN getPublicKeyFromJWK(tree.publicKeyJwk)
            ELSE Err
        keyType == detectKeyTypeFromPublicKeyBytes(publicKeyBytes.val)
        compressed == compressSecp256k1PublicKey(publicKeyBytes.val)
    IN  IF ~publicKeyBytes.ok THEN Err
        ELSE IF ~keyType.ok THEN Err
        ELSE IF keyType.val = "Secp256k1"
        THEN IF ~compressed.ok THEN Err
             ELSE Ok([publicKey |-> PublicKeyFromBytesECDSA(compressed.val),
                      publicKeyFormat |-> publicKeyFormat])
        ELSE Ok([publicKey |-> PublicKeyFromBytesED25519(publicKeyBytes.val),
                 publicKeyFormat |-> publicKeyFormat])

(***************************************************************************)
(* Events.  One record shape for every event class: variant is the class's *)
(* targetName, action tells the Create / Update / Revoke class of a target *)
(* apart.  EmptyEvent is HcsDidEmptyEvent, DeleteEvent HcsDidDeleteEvent.  *)
(***************************************************************************)
BlankEvent ==
    [variant |-> "None", action |-> "none", id |-> Null, controller |-> Null,
     publicKey |-> NoKey, type |-> Null, publicKeyFormat |-> Null,
     relationshipType |-> Null, serviceEndpoint |-> Null]

\* an event field that is null
NoEvent == [BlankEvent EXCEPT !.variant = Null]

HcsDidEmptyEvent == [BlankEvent EXCEPT !.id = "empty-event"]

HcsDidDeleteEvent == [BlankEvent EXCEPT !.variant = "Document", !.action = "delete"]

\* Event ids of the model: owner ids end in #did-root-key, key ids in #key-<integer>.
OwnerEventIds == {"did:T1#did-root-key"}
KeyEventIds == {"did:T1#key-1", "did:T1#key-2"}
ServiceEventIds == {"did:T1#service-1"}
MalformedEventIds == {"did:T1#bogus"}

isOwnerEventIdValid(id) == id \in OwnerEventIds
isKeyEventIdValid(id) == id \in KeyEventIds
isServiceEventIdValid(id) == id \in ServiceEventIds

ValidFormats == {ED25519_KEY_TYPE, ECDSA_SECP256K1_KEY_TYPE, JSON_WEB_KEY_TYPE}

DefaultFormat(keyType) ==
    IF keyType = "Ed25519" THEN ED25519_KEY_TYPE ELSE ECDSA_SECP256K1_KEY_TYPE

\* constructor of HcsDidCreateDidOwnerEvent (and of its Update subclass)
HcsDidCreateDidOwnerEvent(action, id, controller, publicKey, publicKeyFormat) ==
    LET keyType == detectKeyTypeFromPublicKey(publicKey)
    IN  IF id = Null \/ controller = Null \/ publicKey = NoKey THEN Err
        ELSE IF ~isOwnerEventIdValid(id) THEN Err
        ELSE IF ~keyType.ok THEN Err
        ELSE IF publicKeyFormat # Null /\ publicKeyFormat \notin ValidFormats THEN Err
        ELSE Ok([BlankEvent EXCEPT
                    !.variant = "DIDOwner", !.action = action, !.id = id,
                    !.controller = controller, !.publicKey = publicKey,
                    !.type = keyType.val,
                    !.publicKeyFormat = IF publicKeyFormat # Null THEN publicKeyFormat
                                        ELSE DefaultFormat(keyType.val)])

\* constructor of HcsDidCreateVerificationMethodEvent (and of its Update subclass)
HcsDidCreateVerificationMethodEvent(action, id, controller, publicKey, publicKeyFormat) ==
    LET keyType == detectKeyTypeFromPublicKey(publicKey)
    IN  IF id = Null \/ controller = Null \/ publicKey = NoKey THEN Err
        ELSE IF ~isKeyEventIdValid(id) THEN Err
        ELSE IF ~keyType.ok THEN Err
        ELSE IF publicKeyFormat # Null /\ publicKeyFormat \notin ValidFormats THEN Err
        ELSE Ok([BlankEvent EXCEPT
                    !.variant = "VerificationMethod", !.action = action, !.id = id,
                    !.controller = controller, !.publicKey = publicKey,
                    !.type = keyType.val,
                    !.publicKeyFormat = IF publicKeyFormat # Null THEN publicKeyFormat
                                        ELSE DefaultFormat(keyType.val)])

\* constructor of HcsDidCreateVerificationRelationshipEvent (and of its Update subclass)
HcsDidCreateVerificationRelationshipEvent(action, id, relationshipType, controller, publicKey, publicKeyFormat) ==
    LET keyType == detectKeyTypeFromPublicKey(publicKey)
    IN  IF id = Null \/ relationshipType = Null \/ controller = Null \/ publicKey = NoKey
        THEN Err
        ELSE IF ~isKeyEventIdValid(id) THEN Err
        ELSE IF ~keyType.ok THEN Err
        ELSE IF publicKeyFormat # Null /\ publicKeyFormat \notin ValidFormats THEN Err
        ELSE Ok([BlankEvent EXCEPT
                    !.variant = "VerificationRelationship", !.action = action, !.id = id,
                    !.relationshipType = relationshipType,
                    !.controller = controller, !.publicKey = publicKey,
                    !.type = keyType.val,
                    !.publicKeyFormat = IF publicKeyFormat # Null THEN publicKeyFormat
                                        ELSE DefaultFormat(keyType.val)])

\* getPublicKeyMultibase of the three key-bearing classes
getPublicKeyMultibase(event) ==
    IF event.publicKeyFormat = JSON_WEB_KEY_TYPE THEN Err
    ELSE getPublicKeyMultibaseString(event.publicKeyFormat, event.publicKey.raw)

\* getOwnerDef / getVerificationMethodDef: the definition object of a key event
getVerificationMethodDef(event) ==
    LET multibase == getPublicKeyMultibase(event)
    IN  IF event.publicKeyFormat = JSON_WEB_KEY_TYPE
        THEN generateDefinition(event.id, event.type, event.controller,
                 [isString |-> FALSE, str |-> NoMultibase, bytes |-> event.publicKey.raw],
                 event.publicKeyFormat)
        ELSE IF ~multibase.ok THEN Err
        ELSE generateDefinition(event.id, event.type, event.controller,
                 [isString |-> TRUE, str |-> multibase.val, bytes |-> <<>>],
                 event.publicKeyFormat)

\* getVerificationRelationshipDef with generateVerificationRelationshipDefinition
getVerificationRelationshipDef(event) ==
    LET baseDefinition == getVerificationMethodDef(event)
    IN  IF ~baseDefinition.ok THEN Err
        ELSE IF event.relationshipType # Null
        THEN Ok([baseDefinition.val EXCEPT !.relationshipType = event.relationshipType])
        ELSE baseDefinition

(***************************************************************************)
(* The payload of a message's event field: the top-level JSON object maps  *)
(* target names to definition objects.  wire is "obj" for an object,       *)
(* "null" for JSON null and "garbage" for text that is not base64 of JSON; *)
(* targets are the keys with a truthy value, body the definition object    *)
(* found under them.                                                       *)
(***************************************************************************)
Payload(targets, body) == [wire |-> "obj", targets |-> targets, body |-> body]
NullPayload == [wire |-> "null", targets |-> {}, body |-> AbsentTree]
GarbagePayload == [wire |-> "garbage", targets |-> {}, body |-> AbsentTree]

\* toJsonTree of the key-bearing classes: { [targetName]: definition }
toJsonTree(event) ==
    LET def == IF event.variant = "VerificationRelationship"
               THEN getVerificationRelationshipDef(event)
               ELSE getVerificationMethodDef(event)
    IN  IF ~def.ok THEN Err ELSE Ok(Payload({event.variant}, def.val))

(***************************************************************************)
(* The Service, Revoke and DIDDocument event classes, as the specification *)
(* describes them (sections 3 and 4.2): their fromJsonTree builds the      *)
(* event from the definition object and fails fast on a missing field or   *)
(* a malformed id.                                                         *)
(***************************************************************************)
ServiceFromJsonTree(action, tree) ==
    IF action = "revoke"
    THEN IF ~isServiceEventIdValid(tree.id) THEN Err
         ELSE Ok([BlankEvent EXCEPT !.variant = "Service", !.action = action, !.id = tree.id])
    ELSE IF tree.type = Null \/ tree.serviceEndpoint = Null THEN Err
    ELSE IF ~isServiceEventIdValid(tree.id) THEN Err
    ELSE Ok([BlankEvent EXCEPT !.variant = "Service", !.action = action, !.id = tree.id,
                 !.type = tree.type, !.serviceEndpoint = tree.serviceEndpoint])

RevokeFromJsonTree(target, tree) ==
    IF ~isKeyEventIdValid(tree.id) THEN Err
    ELSE IF target = "VerificationRelationship" /\ tree.relationshipType = Null THEN Err
    ELSE Ok([BlankEvent EXCEPT !.variant = target, !.action = "revoke", !.id = tree.id,
                 !.relationshipType = tree.relationshipType])

DidDocumentFromJsonTree(tree) ==
    IF tree.id = Null \/ tree.type = Null THEN Err
    ELSE Ok([BlankEvent EXCEPT !.variant = "DIDDocument", !.action = "create",
                 !.id = tree.id, !.type = tree.type])

(***************************************************************************)
(* fromJsonTree of the key-bearing classes: parsePublicKey, then the       *)
(* constructor of the class the dispatch table names.                      *)
(***************************************************************************)
OwnerFromJsonTree(action, tree) ==
    LET parsed == parsePublicKey(tree)
    IN  IF ~parsed.ok THEN Err
        ELSE HcsDidCreateDidOwnerEvent(action, tree.id, tree.controller,
                 parsed.val.publicKey, parsed.val.publicKeyFormat)

VerificationMethodFromJsonTree(action, tree) ==
    LET parsed == parsePublicKey(tree)
    IN  IF ~parsed.ok THEN Err
        ELSE HcsDidCreateVerificationMethodEvent(action, tree.id, tree.controller,
                 parsed.val.publicKey, parsed.val.publicKeyFormat)

VerificationRelationshipFromJsonTree(action, tree) ==
    LET parsed == parsePublicKey(tree)
    IN  IF ~parsed.ok THEN Err
        ELSE HcsDidCreateVerificationRelationshipEvent(action, tree.id,
                 tree.relationshipType, tree.controller,
                 parsed.val.publicKey, parsed.val.publicKeyFormat)

(***************************************************************************)
(* HcsDidEventParser: the dispatch table and the two decoders.             *)
(***************************************************************************)
DELETE == "delete"

\* DidMethodOperation -> name of the operation's row in EVENT_NAME_TO_CLASS
OPERATION_MAP ==
    [o \in {"create-did-document", "create", "update", "revoke", "delete"} |-> o]

\* Each row lists its target names in the order Object.keys yields them.
EVENT_NAME_TO_CLASS ==
    [o \in {"create", "update", "revoke"} |->
        CASE o = "create" -> <<"DIDOwner", "DIDDocument", "Service", "VerificationMethod",
                               "VerificationRelationship">>
          [] o = "update" -> <<"DIDOwner", "Service", "VerificationMethod",
                               "VerificationRelationship">>
          [] o = "revoke" -> <<"Service", "VerificationMethod",
                               "VerificationRelationship">>]

\* eventsByOperation[eventTargetName].fromJsonTree(tree)
ClassFromJsonTree(row, target, tree) ==
    CASE target = "DIDOwner" -> OwnerFromJsonTree(row, tree)
      [] target = "DIDDocument" -> DidDocumentFromJsonTree(tree)
      [] target = "Service" -> ServiceFromJsonTree(row, tree)
      [] target = "VerificationMethod" /\ row = "revoke" -> RevokeFromJsonTree(target, tree)
      [] target = "VerificationRelationship" /\ row = "revoke" ->
            RevokeFromJsonTree(target, tree)
      [] target = "VerificationMethod" -> VerificationMethodFromJsonTree(row, tree)
      [] target = "VerificationRelationship" ->
            VerificationRelationshipFromJsonTree(row, tree)

\* Object.keys(eventsByOperation).find((etn) => !!tree[etn]); 0 when none is found
FindTarget(names, targets) ==
    IF \E i \in 1..Len(names) : names[i] \in targets
    THEN CHOOSE i \in 1..Len(names) :
            /\ names[i] \in targets
            /\ \A j \in 1..(i - 1) : names[j] \notin targets
    ELSE 0

\* The statements inside the try block of fromBase64 / fromJson.
ParseBody(operation, payload) ==
    IF payload.wire = "garbage" THEN Err                    \* JSON.parse throws
    ELSE IF operation \notin DOMAIN OPERATION_MAP THEN Err  \* Object.keys(undefined)
    ELSE IF OPERATION_MAP[operation] \notin DOMAIN EVENT_NAME_TO_CLASS THEN Err
    ELSE IF payload.wire = "null" THEN Err                  \* tree[etn] of null
    ELSE LET row == OPERATION_MAP[operation]
             eventsByOperation == EVENT_NAME_TO_CLASS[row]
             found == FindTarget(eventsByOperation, payload.targets)
         IN  IF found = 0 THEN Ok(HcsDidEmptyEvent)
             ELSE ClassFromJsonTree(row, eventsByOperation[found], payload.body)

\* fromBase64 without its catch block: whatever the try block throws escapes.
fromBase64NoCatch(operation, eventBase64) ==
    IF operation = DELETE THEN Ok(HcsDidDeleteEvent)
    ELSE ParseBody(operation, eventBase64)

fromBase64(operation, eventBase64) ==
    IF operation = DELETE THEN Ok(HcsDidDeleteEvent)
    ELSE Bind(ParseBody(operation, eventBase64),
              LAMBDA parsed : IF parsed.ok THEN parsed ELSE Ok(HcsDidEmptyEvent))

\* fromJson without its first statement: a Delete is looked up in the
\* dispatch table like any other operation.
fromJsonDeleteLookedUp(operation, eventJson) ==
    Bind(ParseBody(operation,
                   IF eventJson.wire = "garbage"
                   THEN [eventJson EXCEPT !.wire = "obj", !.targets = {}]
                   ELSE eventJson),
         LAMBDA parsed : IF parsed.ok THEN parsed ELSE Ok(HcsDidEmptyEvent))

\* fromJson receives the parsed object: text that is no JSON object has no target key.
fromJson(operation, eventJson) ==
    IF operation = DELETE THEN Ok(HcsDidDeleteEvent)
    ELSE Bind(ParseBody(operation,
                        IF eventJson.wire = "garbage"
                        THEN [eventJson EXCEPT !.wire = "obj", !.targets = {}]
                        ELSE eventJson),
              LAMBDA parsed : IF parsed.ok THEN parsed ELSE Ok(HcsDidEmptyEvent))

(***************************************************************************)
(* ParserSpec: the event codec as a pipeline.  Either an event is built    *)
(* from constructor arguments, encoded with toJsonTree and decoded again   *)
(* under the operation it was built for, or an arbitrary payload is        *)
(* decoded under an arbitrary operation.                                   *)
(***************************************************************************)
Ed25519Keys ==
    {PublicKeyFromBytesED25519(Fill(32, 7)),
     PublicKeyFromBytesED25519(<<2>> \o Fill(31, 5))}

Secp256k1Keys ==
    {PublicKeyFromBytesECDSA(<<2>> \o Fill(32, 9)),
     PublicKeyFromBytesECDSA(<<3>> \o Fill(32, 11))}

\* a key of 31 bytes: no supported length
MalformedKeys == {[curve |-> "ED25519", raw |-> Fill(31, 7)]}

SampleKeys == Ed25519Keys \cup Secp256k1Keys \cup MalformedKeys \cup {NoKey}

RelationshipTypes ==
    {"authentication", "assertionMethod", "keyAgreement", "capabilityInvocation",
     "capabilityDelegation"}

KeyVariants == {"DIDOwner", "VerificationMethod", "VerificationRelationship"}

SampleFormats == ValidFormats \cup {Null, "Ed25519VerificationKey2018"}

SampleArgs ==
    {a \in [variant : KeyVariants,
            action : {"create", "update"},
            id : OwnerEventIds \cup {"did:T1#key-1"} \cup MalformedEventIds \cup {Null},
            controller : {"did:T1", Null},
            publicKey : SampleKeys,
            publicKeyFormat : SampleFormats,
            relationshipType : RelationshipTypes \cup {Null}] :
        \* only a relationship event has a relationship type
        a.variant # "VerificationRelationship" => a.relationshipType = Null}

\* new <class>(...) with the arguments a
Construct(a) ==
    CASE a.variant = "DIDOwner" ->
            HcsDidCreateDidOwnerEvent(a.action, a.id, a.controller, a.publicKey,
                                      a.publicKeyFormat)
      [] a.variant = "VerificationMethod" ->
            HcsDidCreateVerificationMethodEvent(a.action, a.id, a.controller, a.publicKey,
                                                a.publicKeyFormat)
      [] a.variant = "VerificationRelationship" ->
            HcsDidCreateVerificationRelationshipEvent(a.action, a.id, a.relationshipType,
                a.controller, a.publicKey, a.publicKeyFormat)

\* Definition objects a log entry may carry: well-formed ones and damaged ones.
GoodEd25519Tree ==
    [AbsentTree EXCEPT !.id = "did:T1#key-1", !.type = ED25519_KEY_TYPE,
        !.controller = "did:T1",
        !.publicKeyMultibase = base58btcEncode(<<237, 1>> \o Fill(32, 7))]

SampleTrees ==
    {AbsentTree,
     GoodEd25519Tree,
     [GoodEd25519Tree EXCEPT !.id = "did:T1#did-root-key"],
     [GoodEd25519Tree EXCEPT !.relationshipType = "authentication"],
     [GoodEd25519Tree EXCEPT !.id = Null],
     [GoodEd25519Tree EXCEPT !.type = "Ed25519VerificationKey2018"],
     [GoodEd25519Tree EXCEPT !.publicKeyMultibase = [mb |-> "m", bytes |-> Fill(34, 7)]],
     [GoodEd25519Tree EXCEPT !.publicKeyMultibase = base58btcEncode(<<231, 1>> \o Fill(32, 7))],
     [GoodEd25519Tree EXCEPT !.publicKeyMultibase = base58btcEncode(<<237, 1>> \o Fill(31, 7))],
     [GoodEd25519Tree EXCEPT !.type = JSON_WEB_KEY_TYPE,
        !.publicKeyMultibase = NoMultibase,
        !.publicKeyJwk = [NoJwk EXCEPT !.kind = "not-a-jwk"]],
     [GoodEd25519Tree EXCEPT !.type = JSON_WEB_KEY_TYPE,
        !.publicKeyMultibase = NoMultibase,
        !.publicKeyJwk = [kind |-> "jwk", kty |-> "EC", crv |-> "P-384",
                          x |-> Fill(32, 1), y |-> Fill(32, 2)]],
     [AbsentTree EXCEPT !.id = "did:T1#service-1", !.type = "LinkedDomains",
        !.serviceEndpoint = "https://example.com"],
     [AbsentTree EXCEPT !.id = "did:T1", !.type = "DIDDocument"]}

TargetNames ==
    {"DIDOwner", "DIDDocument", "Service", "VerificationMethod", "VerificationRelationship"}

SamplePayloads ==
    {NullPayload, GarbagePayload}
    \cup {Payload(ts, b) : ts \in {{}} \cup {{t} : t \in TargetNames}
                                    \cup {{"DIDOwner", "Service"}, {"Document"}},
                           b \in SampleTrees}

SampleOperations == DOMAIN OPERATION_MAP \cup {"bogus", Null}

NoArgs ==
    [variant |-> Null, action |-> Null, id |-> Null, controller |-> Null,
     publicKey |-> NoKey, publicKeyFormat |-> Null, relationshipType |-> Null]

ParserIdle ==
    /\ pStage = "idle" /\ pArgs = NoArgs /\ pEvent = Err /\ pOp = Null
    /\ pVia = Null /\ pWire = Err /\ pDecoded = Err

ParserInit ==
    /\ ListenerIdle /\ ResolverIdle /\ OwnerIdle /\ DocIdle /\ UtilIdle /\ TxIdle
    /\ pEvent = Err
    /\ pDecoded = Err
    /\ pVia \in {"base64", "json"}
    /\ \/ /\ pStage = "args"
          /\ pArgs \in SampleArgs
          /\ pOp = pArgs.action
          /\ pWire = Err
       \/ /\ pStage = "raw"
          /\ pArgs = NoArgs
          /\ pOp \in SampleOperations
          /\ pWire \in {Ok(p) : p \in SamplePayloads}

\* new <event class>(...)
ConstructEvent ==
    /\ pStage = "args"
    /\ pEvent' = Construct(pArgs)
    /\ pStage' = "built"
    /\ UNCHANGED <<pArgs, pOp, pVia, pWire, pDecoded>>
    /\ UNCHANGED <<listenerVars, resolverVars, ownerVars, docVars, utilVars, txVars>>

\* event.toJsonTree() of a constructed event
EncodeEvent ==
    /\ pStage = "built"
    /\ pEvent.ok
    /\ pWire' = toJsonTree(pEvent.val)
    /\ pStage' = "encoded"
    /\ UNCHANGED <<pArgs, pEvent, pOp, pVia, pDecoded>>
    /\ UNCHANGED <<listenerVars, resolverVars, ownerVars, docVars, utilVars, txVars>>

\* HcsDidEventParser.fromBase64 / fromJson on the payload at hand
DecodeEvent ==
    /\ pStage \in {"encoded", "raw"}
    /\ pWire.ok
    /\ pDecoded' = IF pVia = "base64" THEN fromBase64(pOp, pWire.val)
                   ELSE fromJson(pOp, pWire.val)
    /\ pStage' = IF pStage = "encoded" THEN "decoded" ELSE "parsed"
    /\ UNCHANGED <<pArgs, pEvent, pOp, pVia, pWire>>
    /\ UNCHANGED <<listenerVars, resolverVars, ownerVars, docVars, utilVars, txVars>>

ParserNext == ConstructEvent \/ EncodeEvent \/ DecodeEvent

ParserSpec == ParserInit /\ [][ParserNext]_vars

(***************************************************************************)
(* Claims about the event codec (checked under ParserSpec).                *)
(***************************************************************************)
ParserDone == pStage \in {"decoded", "parsed"}

\* The payloads and operations for which decoding cannot produce an event class.
UndecodableInput ==
    \/ pWire.val.wire \in {"garbage", "null"}
    \/ pOp \notin {"create", "update", "revoke"}
    \/ pWire.val.targets \cap TargetNames = {}
    \/ /\ pWire.val.targets \subseteq KeyVariants
       /\ pOp \in {"create", "update"}
       /\ \/ pWire.val.body.type \notin ValidFormats \cup {Null}
          \/ pWire.val.body.id = Null
          \/ pWire.val.body.controller = Null
          \/ pWire.val.body.publicKeyMultibase.mb \notin {"z", Null}

\* C8: HcsDidEventParser.fromBase64 and fromJson never throw, whatever the
\* operation and the payload; when decoding or event construction fails the
\* event they return is the empty event.
C8_ParserNeverThrows ==
    ParserDone =>
        /\ pDecoded.ok
        /\ (pOp # DELETE /\ UndecodableInput) => pDecoded.val = HcsDidEmptyEvent

\* A payload naming a verification method of an unsupported type was decoded,
\* under an existing operation, to the empty event.
C8_Witness ==
    /\ pStage = "parsed"
    /\ pOp = "create"
    /\ pWire.val.targets = {"VerificationMethod"}
    /\ pWire.val.body.type = "Ed25519VerificationKey2018"
    /\ pDecoded = Ok(HcsDidEmptyEvent)

\* The key type / key format pairs the encoders support.
SupportedCombination(event) ==
    \/ event.type = "Ed25519" /\ event.publicKeyFormat \in {ED25519_KEY_TYPE, JSON_WEB_KEY_TYPE}
    \/ event.type = "Secp256k1"
        /\ event.publicKeyFormat \in {ECDSA_SECP256K1_KEY_TYPE, JSON_WEB_KEY_TYPE}

\* C9: for every key-bearing event of a supported key type / format /
\* relationship type combination, decoding the encoded event under the same
\* operation returns an event equal to the original (and not the empty event).
C9_RoundTrip ==
    (pStage = "decoded" /\ SupportedCombination(pEvent.val)) => pDecoded = pEvent

\* What the code does instead: the round trip holds for every supported
\* combination but a Secp256k1 key in multibase form, which decodes to the
\* empty event.
C9_RoundTripButSecpMultibase ==
    (pStage = "decoded" /\ SupportedCombination(pEvent.val)) =>
        IF pEvent.val.type = "Secp256k1" /\ pEvent.val.publicKeyFormat = ECDSA_SECP256K1_KEY_TYPE
        THEN pDecoded = Ok(HcsDidEmptyEvent)
        ELSE pDecoded = pEvent

\* C28: every key-bearing event (owner, verification method, verification
\* relationship) its constructor accepted has a publicKeyFormat compatible
\* with its detected key type (an Ed25519 key is never paired with
\* EcdsaSecp256k1VerificationKey2020, nor a Secp256k1 key with
\* Ed25519VerificationKey2020), so that toJsonTree() of a constructed event
\* never fails.
C28_AcceptedEventsEncode ==
    pStage = "encoded" => (SupportedCombination(pEvent.val) /\ pWire.ok)

\* What the code does: the constructors accept every valid format for every
\* key; toJsonTree() succeeds for the compatible pairs, and fails for a
\* Secp256k1 key with the Ed25519 format and for an Ed25519 key with the
\* Secp256k1 format unless the key happens to start with 0x02, 0x03 or 0x04.
C28_AsCoded ==
    pStage = "encoded" =>
        /\ SupportedCombination(pEvent.val) => pWire.ok
        /\ (pEvent.val.type = "Secp256k1" /\ pEvent.val.publicKeyFormat = ED25519_KEY_TYPE)
              => ~pWire.ok
        /\ (pEvent.val.type = "Ed25519" /\ pEvent.val.publicKeyFormat = ECDSA_SECP256K1_KEY_TYPE
               /\ toBytesRaw(pEvent.val.publicKey)[1] \notin {2, 3, 4})
              => ~pWire.ok

\* C17: for the operation Delete, fromBase64 and fromJson return the Delete
\* event for every payload (well-formed, malformed, empty or null): never the
\* empty event, and never an exception.
C17_DeleteYieldsDeleteEvent ==
    (ParserDone /\ pOp = DELETE) => pDecoded = Ok(HcsDidDeleteEvent)

\* a payload that is no JSON was decoded under Delete
C17_Witness ==
    /\ pStage = "parsed"
    /\ pOp = DELETE
    /\ pWire.val = GarbagePayload
    /\ pDecoded = Ok(HcsDidDeleteEvent)

\* a payload whose DIDDocument entry is well formed was decoded under CreateDocument
CreateDocumentDecoded ==
    /\ pStage = "parsed"
    /\ pOp = "create-did-document"
    /\ pWire.val.wire = "obj"
    /\ pWire.val.targets = {"DIDDocument"}
    /\ DidDocumentFromJsonTree(pWire.val.body).ok

\* C23: decoding a message whose operation is CreateDocument and whose
\* payload has a well-formed DIDDocument entry yields the Document event,
\* not the empty event; and every operation the operation map names, other
\* than Delete, has a row in the dispatch table.
C23_CreateDocumentDispatched ==
    /\ CreateDocumentDecoded =>
          pDecoded = DidDocumentFromJsonTree(pWire.val.body)
    /\ \A operation \in DOMAIN OPERATION_MAP \ {DELETE} :
          OPERATION_MAP[operation] \in DOMAIN EVENT_NAME_TO_CLASS

\* What the code does: the operation map sends CreateDocument to a row the
\* dispatch table does not have, and the decoder returns the empty event;
\* every other operation but Delete has its row.
C23_AsCoded ==
    /\ CreateDocumentDecoded => pDecoded = Ok(HcsDidEmptyEvent)
    /\ \A operation \in DOMAIN OPERATION_MAP \ {DELETE, "create-did-document"} :
          OPERATION_MAP[operation] \in DOMAIN EVENT_NAME_TO_CLASS
    /\ (ParserDone /\ pStage = "parsed" /\ pOp = "create" /\ pWire.val.wire = "obj"
           /\ pWire.val.targets = {"DIDDocument"})
          => pDecoded = IF DidDocumentFromJsonTree(pWire.val.body).ok
                        THEN DidDocumentFromJsonTree(pWire.val.body)
                        ELSE Ok(HcsDidEmptyEvent)

(***************************************************************************)
(* DID identifiers: did:hedera:<network>:<multibase-owner-key>_<topicId>.  *)
(* An identifier string is kept as its segments: the ':'-separated         *)
(* segments before the '_' (prefix, method, network, idString and an       *)
(* optional further segment) and the topic part after it.  idString is the *)
(* text of the key segment: its number of characters and what              *)
(* base58btc reads from it.  extra is Null when the string has no further  *)
(* segment, and the text of the segment ("" after a trailing ':') when it  *)
(* has one.                                                                *)
(***************************************************************************)
DID_PREFIX == "did"
HEDERA_HCS == "hedera"
HederaNetworks == {"mainnet", "testnet", "previewnet"}
MinIdStringLength == 44

\* TopicId.fromString of the ledger SDK accepts shard.realm.num only.
WellFormedTopicIds == {"0.0.1", "0.0.2"}

NoIdentifier ==
    [prefix |-> Null, method |-> Null, network |-> Null,
     idString |-> [chars |-> 0, text |-> NoMultibase], extra |-> Null, topic |-> Null]

parseIdentifier(identifier) ==
    IF identifier.topic = Null THEN Err
    ELSE IF identifier.topic \notin WellFormedTopicIds THEN Err
    ELSE IF identifier.prefix # DID_PREFIX THEN Err
    ELSE IF identifier.method # HEDERA_HCS THEN Err
    ELSE IF identifier.network \notin HederaNetworks THEN Err
    ELSE IF identifier.idString.chars < MinIdStringLength
            \/ identifier.extra \notin {Null, ""}        \* didParts.shift() is truthy
    THEN Err
    ELSE Ok([networkName |-> identifier.network, topicId |-> identifier.topic,
             didIdString |-> identifier.idString])

detectKeyTypeFromIdentifier(identifier) ==
    LET decoded == base58btcDecode(identifier.idString.text)
    IN  IF identifier.prefix # DID_PREFIX \/ identifier.method # HEDERA_HCS THEN Err
        ELSE IF identifier.network = Null \/ identifier.idString.chars = 0 THEN Err
        ELSE IF identifier.idString.text.mb # "z" THEN Err
        ELSE IF ~decoded.ok THEN Err
        ELSE IF Slice(decoded.val, 0, 2) = MULTICODECS["ed25519-pub"] THEN Ok("Ed25519")
        ELSE IF Slice(decoded.val, 0, 2) = MULTICODECS["secp256k1-pub"] THEN Ok("Secp256k1")
        ELSE Err

\* keyType.toLowerCase() for the key type names
toLowerCase(keyType) ==
    CASE keyType = "Ed25519" -> "ed25519"
      [] keyType = "Secp256k1" -> "secp256k1"
      [] OTHER -> keyType

\* The length of the string base58btc.encode gives for bytes whose first byte
\* is a multicodec prefix byte (0xe7, 0xed): the letter "z" and one base-58
\* digit per log2(58) = 5.86 bits.
MultibaseLength(text) == 1 + (Len(text.bytes) * 800) \div 586 + 1

publicKeyToIdString(publicKey, keyType) ==
    LET publicKeyBytes == toBytesRaw(publicKey)
    IN  IF toLowerCase(keyType) = "ed25519"
        THEN getPublicKeyBase58ForEd25519(publicKeyBytes)
        ELSE IF toLowerCase(keyType) = "secp256k1"
        THEN IF ~isValidCompressedOrUncompressedSecp256k1Key(publicKeyBytes) THEN Err
             ELSE getPublicKeyBase58ForSecp256k1(publicKeyBytes)
        ELSE Err

stringToPublicKey(idString) ==
    IF idString.mb # "z" THEN Err
    ELSE Bind(base58btcDecode(idString).val, LAMBDA decodedBytes :
            IF Len(decodedBytes) > 0 /\ decodedBytes[1] = MULTICODECS["ed25519-pub"][1]
            THEN Bind(removeMulticodecPrefix("ed25519-pub", decodedBytes),
                      LAMBDA publicKeyBytes :
                         IF ~publicKeyBytes.ok THEN Err
                         ELSE Ok(PublicKeyFromBytesED25519(publicKeyBytes.val)))
            ELSE IF Len(decodedBytes) > 0 /\ decodedBytes[1] = MULTICODECS["secp256k1-pub"][1]
            THEN Bind(removeMulticodecPrefix("secp256k1-pub", decodedBytes),
                      LAMBDA publicKeyBytes :
                         IF ~publicKeyBytes.ok THEN Err
                         ELSE Ok(PublicKeyFromBytesECDSA(publicKeyBytes.val)))
            ELSE Err)

parsePublicKeyFromIdentifier(identifier) ==
    Bind(parseIdentifier(identifier), LAMBDA parsed :
            IF ~parsed.ok THEN Err
            ELSE stringToPublicKey(parsed.val.didIdString.text))

\* self is the HcsDid whose register() has created the topic: keyType is the
\* type the constructor detected from the private key, network the
\* constructor argument (any string; "mainnet" when absent).
buildIdentifier(self, publicKey) ==
    Bind(publicKeyToIdString(publicKey, self.keyType), LAMBDA idString :
            IF ~idString.ok THEN Err
            ELSE Ok([prefix |-> DID_PREFIX, method |-> HEDERA_HCS,
                     network |-> self.network,
                     idString |-> [chars |-> MultibaseLength(idString.val),
                                   text |-> idString.val],
                     extra |-> Null, topic |-> self.topicId]))

\* new HcsDid({ identifier }): the fields the message check reads
HcsDidFromIdentifier(identifier) ==
    LET parsed == parseIdentifier(identifier)
        keyType == detectKeyTypeFromIdentifier(identifier)
    IN  IF identifier = NoIdentifier THEN Err
        ELSE IF ~parsed.ok THEN Err
        ELSE IF ~keyType.ok THEN Err
        ELSE Ok([identifier |-> identifier, network |-> parsed.val.networkName,
                 topicId |-> parsed.val.topicId, keyType |-> keyType.val])

\* DidParser.parse, as the specification describes it: a string
\* of the hedera method is handed to the HcsDid constructor.
DidParserParse(did) ==
    IF did = NoIdentifier THEN Err
    ELSE IF did.prefix # DID_PREFIX \/ did.method # HEDERA_HCS THEN Err
    ELSE HcsDidFromIdentifier(did)

(***************************************************************************)
(* HcsDidMessage and its envelope.                                         *)
(***************************************************************************)
HcsDidMessage(operation, did, event) ==
    [operation |-> operation, did |-> did, event |-> event]

\* isValid without the comparison of the topics.
isValidAnyTopic(message, didTopicId) ==
    IF message.did = NoIdentifier \/ message.event = NoEvent \/ message.operation = Null
    THEN FALSE
    ELSE DidParserParse(message.did).ok

\* HcsDidMessage.isValid(didTopicId)
isValid(message, didTopicId) ==
    IF message.did = NoIdentifier \/ message.event = NoEvent \/ message.operation = Null
    THEN FALSE
    ELSE Bind(DidParserParse(message.did), LAMBDA hcsDid :
            IF ~hcsDid.ok THEN FALSE
            ELSE IF didTopicId # Null /\ hcsDid.val.topicId # Null
                    /\ didTopicId # hcsDid.val.topicId
            THEN FALSE
            ELSE TRUE)

\* MessageEnvelope, as the specification describes it: a message
\* with its detached signature; open() returns the message it was built with.
MessageEnvelope(message, signature) == [message |-> message, signature |-> signature]

open(envelope) == envelope.message

getSignature(envelope) == envelope.signature

(***************************************************************************)
(* A raw entry of the mirror's message list, as its base64 text decodes:   *)
(* json tells whether the text is JSON at all, hasMessage whether the      *)
(* object has a message member; eventForm is the form of message.event     *)
(* ("b64": base64 of JSON, "garbage": a string that is not, "empty": the   *)
(* empty string, "null", "missing").                                       *)
(***************************************************************************)
\* HcsDidMessage.fromJsonTree(tree) after extractMessage decoded tree.event
MessageFromJsonTree(entry) ==
    IF ~entry.hasMessage THEN Err                          \* tree is undefined
    ELSE IF entry.eventForm = "empty"                      \* typeof "" === "string"
    THEN Ok(HcsDidMessage(entry.operation, entry.did,
                          fromBase64(entry.operation, GarbagePayload).val))
    ELSE IF entry.eventForm = "b64"                        \* decoded to an object
    THEN Ok(HcsDidMessage(entry.operation, entry.did,
                          fromJson(entry.operation, entry.payload).val))
    ELSE IF entry.eventForm = "null"                       \* typeof null === "object"
    THEN Ok(HcsDidMessage(entry.operation, entry.did,
                          fromJson(entry.operation, NullPayload).val))
    ELSE Err                                               \* "Invalid event format"

\* The try block of HcsDidTopicListener.extractMessage.
ExtractBody(response) ==
    IF response.json # "ok" THEN Err                       \* JSON.parse throws
    ELSE IF response.hasMessage /\ response.eventForm = "garbage" THEN Err
    ELSE Bind(MessageFromJsonTree(response), LAMBDA message :
            IF ~message.ok THEN Err
            ELSE Ok(MessageEnvelope(message.val, response.signature)))

(***************************************************************************)
(* HcsDidTopicListener.  What one subscribe() call did is gathered in a    *)
(* run record: the envelopes handed to the receiver, the reports to the    *)
(* invalid-message handler, the calls of reportInvalidMessage (reported),  *)
(* the number of error-handler calls, the number of entries handleResponse *)
(* was called for, the number of filter calls, and whether an exception is *)
(* travelling up the stack.                                                *)
(***************************************************************************)
\* The filters of the model: "any" accepts every response, "signed" the signed ones.
ApplyFilter(filter, response) ==
    IF filter = "signed" THEN response.signature # Null ELSE TRUE

\* handleError that does not consult ignoreErrors
handleErrorAlwaysThrows(cfg, run) ==
    IF cfg.errorHandler THEN [run EXCEPT !.errors = @ + 1]
    ELSE [run EXCEPT !.thrown = TRUE]

handleError(cfg, run) ==
    IF cfg.errorHandler THEN [run EXCEPT !.errors = @ + 1]
    ELSE IF ~cfg.ignoreErrors THEN [run EXCEPT !.thrown = TRUE]
    ELSE run

reportInvalidMessage(cfg, run, response, reason) ==
    Bind([response |-> response, reason |-> reason], LAMBDA report :
        IF cfg.invalidMessageHandler
        THEN [run EXCEPT !.reported = Append(@, report), !.invalid = Append(@, report)]
        ELSE [run EXCEPT !.reported = Append(@, report)])

\* extractMessage returns the envelope, or null after its catch block ran;
\* an exception thrown by handleError inside the catch block leaves the function.
extractMessage(cfg, run, response) ==
    Bind(ExtractBody(response), LAMBDA body :
        IF body.ok THEN [result |-> body, run |-> run]
        ELSE [result |-> Err, run |-> handleError(cfg, run)])

isMessageValid(cfg, run, envelope, response) ==
    IF ~isValid(open(envelope), cfg.topicId)
    THEN [valid |-> FALSE,
          run |-> reportInvalidMessage(cfg, run, response, "Message content validation failed.")]
    ELSE [valid |-> TRUE, run |-> run]

\* position of the first filter that returns false; 0 when every filter accepts
FirstRejecting(filters, response) ==
    IF \E i \in 1..Len(filters) : ~ApplyFilter(filters[i], response)
    THEN CHOOSE i \in 1..Len(filters) :
            /\ ~ApplyFilter(filters[i], response)
            /\ \A j \in 1..(i - 1) : ApplyFilter(filters[j], response)
    ELSE 0

\* the filter loop of handleResponse: the number of filters it calls
FiltersCalled(filters, response) ==
    IF FirstRejecting(filters, response) = 0 THEN Len(filters)
    ELSE FirstRejecting(filters, response)

\* handleResponse without the return after the report of a rejecting filter
handleResponseNoReturn(cfg, run0, response) ==
    Bind([run0 EXCEPT !.handled = @ + 1,
                      !.filterCalls = @ + FiltersCalled(cfg.filters, response)],
         LAMBDA run :
        Bind(extractMessage(cfg,
                            IF FirstRejecting(cfg.filters, response) # 0
                            THEN reportInvalidMessage(cfg, run, response,
                                     "Message was rejected by external filter")
                            ELSE run,
                            response), LAMBDA extracted :
            IF extracted.run.thrown THEN extracted.run
            ELSE IF ~extracted.result.ok
            THEN reportInvalidMessage(cfg, extracted.run, response,
                                      "Extracting envelope from the response failed")
            ELSE Bind(isMessageValid(cfg, extracted.run, extracted.result.val, response),
                      LAMBDA checked :
                          IF checked.valid
                          THEN [checked.run EXCEPT
                                   !.received = Append(@, extracted.result.val)]
                          ELSE checked.run)))

handleResponse(cfg, run0, response) ==
    Bind([run0 EXCEPT !.handled = @ + 1,
                      !.filterCalls = @ + FiltersCalled(cfg.filters, response)],
         LAMBDA run :
        IF FirstRejecting(cfg.filters, response) # 0
        THEN reportInvalidMessage(cfg, run, response,
                                  "Message was rejected by external filter")
        ELSE Bind(extractMessage(cfg, run, response), LAMBDA extracted :
            IF extracted.run.thrown THEN extracted.run
            ELSE IF ~extracted.result.ok
            THEN reportInvalidMessage(cfg, extracted.run, response,
                                      "Extracting envelope from the response failed")
            ELSE Bind(isMessageValid(cfg, extracted.run, extracted.result.val, response),
                      LAMBDA checked :
                          IF checked.valid
                          THEN [checked.run EXCEPT
                                   !.received = Append(@, extracted.result.val)]
                          ELSE checked.run)))

\* the for loop of subscribe: an exception ends it
RECURSIVE HandleAll(_, _, _)
HandleAll(cfg, run, msgs) ==
    IF msgs = <<>> \/ run.thrown THEN run
    ELSE Bind(handleResponse(cfg, run, Head(msgs)),
              LAMBDA handled : HandleAll(cfg, handled, Tail(msgs)))

\* subscribe(receiver) once the mirror has answered with fetch; thrown in the
\* result means the promise subscribe() returned is rejected.
subscribe(cfg, fetch) ==
    Bind(IF fetch.status = "ok"
         THEN HandleAll(cfg, NoRun, fetch.messages)
         ELSE [NoRun EXCEPT !.thrown = TRUE],
         LAMBDA looped :
             IF looped.thrown
             THEN handleError(cfg, [looped EXCEPT !.thrown = FALSE])
             ELSE looped)

(***************************************************************************)
(* Sample topic entries.                                                   *)
(***************************************************************************)
ListenerTopic == "0.0.1"

Ed25519IdString ==
    [chars |-> 48,
     text |-> base58btcEncode(addMulticodecPrefix("ed25519-pub", Fill(32, 7)).val)]

GoodDid ==
    [prefix |-> "did", method |-> "hedera", network |-> "testnet",
     idString |-> Ed25519IdString, extra |-> Null, topic |-> ListenerTopic]

OtherTopicDid == [GoodDid EXCEPT !.topic = "0.0.2"]

MalformedDids ==
    {[GoodDid EXCEPT !.topic = Null],
     [GoodDid EXCEPT !.method = "web"],
     [GoodDid EXCEPT !.idString = [chars |-> 12, text |-> base58btcEncode(<<237, 1, 7>>)]]}

OwnerCreatePayload ==
    toJsonTree(HcsDidCreateDidOwnerEvent("create", "did:T1#did-root-key", "did:T1",
                   PublicKeyFromBytesED25519(Fill(32, 7)), ED25519_KEY_TYPE).val).val

KeyCreatePayload ==
    toJsonTree(HcsDidCreateVerificationMethodEvent("create", "did:T1#key-1", "did:T1",
                   PublicKeyFromBytesED25519(Fill(32, 7)), ED25519_KEY_TYPE).val).val

OwnerCreateEntry ==
    [json |-> "ok", hasMessage |-> TRUE, operation |-> "create", did |-> GoodDid,
     eventForm |-> "b64", payload |-> OwnerCreatePayload, signature |-> "sig-1"]

KeyCreateEntry == [OwnerCreateEntry EXCEPT !.payload = KeyCreatePayload, !.signature = "sig-2"]

DeleteEntry ==
    [OwnerCreateEntry EXCEPT !.operation = "delete", !.eventForm = "null",
                             !.payload = NullPayload, !.signature = "sig-3"]

UnsignedEntry == [KeyCreateEntry EXCEPT !.signature = Null]

OtherTopicEntry == [KeyCreateEntry EXCEPT !.did = OtherTopicDid, !.signature = "sig-4"]

NotJsonEntry ==
    [json |-> "garbage", hasMessage |-> FALSE, operation |-> Null, did |-> NoIdentifier,
     eventForm |-> "missing", payload |-> NullPayload, signature |-> Null]

UndecodableEventEntry ==
    [OwnerCreateEntry EXCEPT !.eventForm = "garbage", !.payload = GarbagePayload,
                             !.signature = "sig-5"]

\* message.event is "": HcsDidMessage.fromJsonTree hands it to fromBase64, whose
\* JSON.parse fails inside its try block, so the message carries the empty event.
EmptyEventEntry ==
    [KeyCreateEntry EXCEPT !.eventForm = "empty", !.payload = GarbagePayload,
                           !.signature = "sig-6"]

ValidEntries ==
    {OwnerCreateEntry, KeyCreateEntry, DeleteEntry, UnsignedEntry, EmptyEventEntry}

UnextractableEntries ==
    {NotJsonEntry, UndecodableEventEntry,
     [OwnerCreateEntry EXCEPT !.hasMessage = FALSE],
     [OwnerCreateEntry EXCEPT !.eventForm = "missing", !.payload = NullPayload]}

InvalidEntries ==
    {OtherTopicEntry,
     [OwnerCreateEntry EXCEPT !.did = NoIdentifier],
     [OwnerCreateEntry EXCEPT !.operation = Null]}
        \cup {[OwnerCreateEntry EXCEPT !.did = d] : d \in MalformedDids}

SampleEntries == ValidEntries \cup UnextractableEntries \cup InvalidEntries

MaxLog == 2

RECURSIVE SeqsUpTo(_, _)
SeqsUpTo(S, n) ==
    IF n = 0 THEN {<<>>}
    ELSE LET shorter == SeqsUpTo(S, n - 1)
         IN  shorter \cup {Append(s, e) : s \in shorter, e \in S}

SampleFetches ==
    {[status |-> "ok", messages |-> m] : m \in SeqsUpTo(SampleEntries, MaxLog)}
        \cup {[status |-> "notOk", messages |-> <<>>],
              [status |-> "networkError", messages |-> <<>>]}

(***************************************************************************)
(* ListenerSpec: one HcsDidTopicListener on ListenerTopic, configured by   *)
(* its setters and then subscribed once; the mirror answers with any of    *)
(* the sample fetches.                                                     *)
(***************************************************************************)
MaxFilters == 2

ListenerInit ==
    /\ ParserIdle /\ ResolverIdle /\ OwnerIdle /\ DocIdle /\ UtilIdle /\ TxIdle
    /\ lStage = "new"
    /\ lCfg = [NoListenerCfg EXCEPT !.topicId = ListenerTopic]
    /\ lFetch = NoFetch
    /\ lRun = NoRun

ListenerOnError ==
    /\ lStage = "new"
    /\ lCfg' = [lCfg EXCEPT !.errorHandler = TRUE]
    /\ UNCHANGED <<lStage, lFetch, lRun>>
    /\ UNCHANGED <<parserVars, resolverVars, ownerVars, docVars, utilVars, txVars>>

setIgnoreErrors ==
    /\ lStage = "new"
    /\ \E ignoreErrors \in BOOLEAN : lCfg' = [lCfg EXCEPT !.ignoreErrors = ignoreErrors]
    /\ UNCHANGED <<lStage, lFetch, lRun>>
    /\ UNCHANGED <<parserVars, resolverVars, ownerVars, docVars, utilVars, txVars>>

onInvalidMessageReceived ==
    /\ lStage = "new"
    /\ lCfg' = [lCfg EXCEPT !.invalidMessageHandler = TRUE]
    /\ UNCHANGED <<lStage, lFetch, lRun>>
    /\ UNCHANGED <<parserVars, resolverVars, ownerVars, docVars, utilVars, txVars>>

addFilter ==
    /\ lStage = "new"
    /\ Len(lCfg.filters) < MaxFilters
    /\ \E filter \in {"any", "signed"} : lCfg' = [lCfg EXCEPT !.filters = Append(@, filter)]
    /\ UNCHANGED <<lStage, lFetch, lRun>>
    /\ UNCHANGED <<parserVars, resolverVars, ownerVars, docVars, utilVars, txVars>>

\* subscribe() up to its first await: the request is on its way
ListenerSubscribe ==
    /\ lStage = "new"
    /\ lStage' = "fetching"
    /\ UNCHANGED <<lCfg, lFetch, lRun>>
    /\ UNCHANGED <<parserVars, resolverVars, ownerVars, docVars, utilVars, txVars>>

\* the rest of subscribe(): the answer is processed entry by entry
ListenerMirrorResponds ==
    /\ lStage = "fetching"
    /\ \E fetch \in SampleFetches :
          /\ lFetch' = fetch
          /\ lRun' = subscribe(lCfg, fetch)
          /\ lStage' = IF lRun'.thrown THEN "rejected" ELSE "returned"
    /\ UNCHANGED lCfg
    /\ UNCHANGED <<parserVars, resolverVars, ownerVars, docVars, utilVars, txVars>>

ListenerNext ==
    \/ ListenerOnError
    \/ setIgnoreErrors
    \/ onInvalidMessageReceived
    \/ addFilter
    \/ ListenerSubscribe
    \/ ListenerMirrorResponds

ListenerSpec == ListenerInit /\ [][ListenerNext]_vars

(***************************************************************************)
(* Claims about the listener (checked under ListenerSpec).                 *)
(***************************************************************************)
ListenerDone == lStage \in {"returned", "rejected"}

PassesFilters(response) ==
    \A i \in 1..Len(lCfg.filters) : ApplyFilter(lCfg.filters[i], response)

\* positions of the fetched list whose envelope cannot be extracted
Unextractable ==
    {i \in 1..Len(lFetch.messages) :
        PassesFilters(lFetch.messages[i]) /\ ~ExtractBody(lFetch.messages[i]).ok}

ReportedInvalid(response) ==
    \E j \in 1..Len(lRun.invalid) : lRun.invalid[j].response = response

\* C6: when the fetched list holds an entry whose envelope cannot be extracted,
\* the listener reports the entry to the invalid-message handler (if one is
\* registered), subscribe() does not throw, and every entry of the list is
\* processed, whatever the error handler registration and ignoreErrors are.
C6_UnextractableReportedNotThrown ==
    (ListenerDone /\ lFetch.status = "ok" /\ Unextractable # {})
        => /\ ~lRun.thrown
           /\ lRun.handled = Len(lFetch.messages)
           /\ lCfg.invalidMessageHandler
                 => \A i \in Unextractable : ReportedInvalid(lFetch.messages[i])

\* What the code does: with an error handler, or with ignoreErrors set, the
\* claim's behaviour; with neither, subscribe() is rejected at the first such entry.
C6_AsCoded ==
    (ListenerDone /\ lFetch.status = "ok" /\ Unextractable # {})
        => IF lCfg.errorHandler \/ lCfg.ignoreErrors
           THEN /\ ~lRun.thrown
                /\ lRun.handled = Len(lFetch.messages)
                /\ lCfg.invalidMessageHandler
                      => \A i \in Unextractable : ReportedInvalid(lFetch.messages[i])
           ELSE /\ lRun.thrown
                /\ lRun.handled = CHOOSE i \in Unextractable : \A j \in Unextractable : i <= j
                /\ lRun.invalid = <<>> \/ \A i \in Unextractable :
                                             ~ReportedInvalid(lFetch.messages[i])

\* C7: the receiver is only called with envelopes whose message is non-null,
\* has a did, an event and an operation, whose DID parses, and whose DID topic
\* is the listener's topic.
C7_ReceiverGetsValidOnly ==
    \A i \in 1..Len(lRun.received) :
        LET message == open(lRun.received[i])
        IN  /\ message.did # NoIdentifier
            /\ message.event # NoEvent
            /\ message.operation # Null
            /\ DidParserParse(message.did).ok
            /\ DidParserParse(message.did).val.topicId = lCfg.topicId

\* a list with an entry of another topic and a deliverable one has been processed
C7_Witness ==
    /\ lStage = "returned"
    /\ lRun.received # <<>>
    /\ \E i \in 1..Len(lFetch.messages) : lFetch.messages[i] = OtherTopicEntry

\* C21: on a transport failure in subscribe() (the request fails, or the
\* answer is not ok): with an error handler registered, the handler is called
\* once with the error and subscribe() completes normally, whatever
\* ignoreErrors is; with none and ignoreErrors false, subscribe() fails with
\* a DidError; with none and ignoreErrors true, the error is swallowed and
\* subscribe() completes normally.
C21_TransportFailurePolicy ==
    (ListenerDone /\ lFetch.status # "ok") =>
        /\ lRun.handled = 0 /\ lRun.received = <<>>
        /\ IF lCfg.errorHandler
           THEN lStage = "returned" /\ lRun.errors = 1
           ELSE IF ~lCfg.ignoreErrors
           THEN lStage = "rejected" /\ lRun.errors = 0
           ELSE lStage = "returned" /\ lRun.errors = 0

\* the request failed on a listener without error handler that ignores errors
C21_Witness ==
    /\ lStage = "returned"
    /\ lFetch.status = "networkError"
    /\ ~lCfg.errorHandler
    /\ lCfg.ignoreErrors

\* the fetched entries handleResponse returned from (no exception escaped)
Processed ==
    IF lFetch.status = "ok"
    THEN SubSeq(lFetch.messages, 1, IF lRun.thrown THEN lRun.handled - 1 ELSE lRun.handled)
    ELSE <<>>

Delivered(response) ==
    /\ ExtractBody(response).ok
    /\ \E j \in 1..Len(lRun.received) : lRun.received[j] = ExtractBody(response).val

Reported(response) ==
    \E j \in 1..Len(lRun.reported) : lRun.reported[j].response = response

ReportedWith(response, reason) ==
    \E j \in 1..Len(lRun.reported) :
        lRun.reported[j] = [response |-> response, reason |-> reason]

RECURSIVE ExpectedFilterCalls(_)
ExpectedFilterCalls(msgs) ==
    IF msgs = <<>> THEN 0
    ELSE FiltersCalled(lCfg.filters, Head(msgs)) + ExpectedFilterCalls(Tail(msgs))

\* C20: every fetched entry the listener processes without an exception
\* escaping has exactly one outcome, exactly once: the receiver is called
\* with its envelope, or reportInvalidMessage is called for it with a reason
\* (which reaches the invalid-message handler when one is registered).  The
\* filters run in registration order and stop at the first that returns
\* false; an entry a filter rejects is reported with the filter reason and is
\* neither extracted (no extraction error is raised for it) nor delivered.
C20_OneOutcomePerEntry ==
    ListenerDone =>
        /\ Len(lRun.received) + Len(lRun.reported) = Len(Processed)
        /\ \A i \in 1..Len(Processed) :
              /\ Delivered(Processed[i]) # Reported(Processed[i])
              /\ ~PassesFilters(Processed[i])
                    => /\ ~Delivered(Processed[i])
                       /\ ReportedWith(Processed[i],
                                       "Message was rejected by external filter")
        /\ (lCfg.errorHandler /\ lFetch.status = "ok") =>
              lRun.errors = Cardinality({i \in 1..Len(Processed) :
                                PassesFilters(Processed[i])
                                    /\ ~ExtractBody(Processed[i]).ok})
        /\ lFetch.status = "ok" =>
              lRun.filterCalls =
                  ExpectedFilterCalls(SubSeq(lFetch.messages, 1, lRun.handled))

\* the first of two filters rejected an entry, which was reported and not
\* delivered, and another entry was delivered
C20_Witness ==
    /\ lStage = "returned"
    /\ Len(lCfg.filters) = 2
    /\ lRun.received # <<>>
    /\ \E i \in 1..Len(lFetch.messages) :
          /\ FirstRejecting(lCfg.filters, lFetch.messages[i]) = 1
          /\ Reported(lFetch.messages[i])
          /\ ~Delivered(lFetch.messages[i])

(***************************************************************************)
(* HcsDidEventMessageResolver.                                             *)
(*                                                                         *)
(* Time.  The resolver reads the clock only through Long.fromInt(Date.now()),*)
(* which keeps the low 32 bits of the reading as a signed number.  The     *)
(* model keeps the low WordBits bits instead, so that the clock can run    *)
(* through the whole word; now is the reading as the resolver sees it.     *)
(* Timeouts are small numbers of clock ticks.                              *)
(***************************************************************************)
WordBits == 3
WordSize == 2 ^ WordBits
MaxInt == 2 ^ (WordBits - 1) - 1
MinInt == 0 - 2 ^ (WordBits - 1)

\* Long.fromInt(value): value |= 0
FromInt(value) ==
    LET low == value % WordSize
    IN  IF low > MaxInt THEN low - WordSize ELSE low

MaxTimeout == 2
DEFAULT_TIMEOUT == MaxTimeout
READ_TOPIC_MESSAGES_TIMEOUT == 1

\* The timers of the event loop.  nextMessageArrivalTimeout holds the timer
\* the field refers to (pending until it fires or is cleared, due when
\* remaining is 0) and, in others, the time left of every timer that is still
\* pending although the field refers to a later one.

\* clearTimeout(this.nextMessageArrivalTimeout)
clearTimeout(timers) == [timers EXCEPT !.pending = FALSE]

\* this.nextMessageArrivalTimeout = setTimeout(callback, delay): a delay below
\* 1 or above the largest timer duration (the largest signed word) becomes 1;
\* a timer the field referred to stays pending unless it was cleared.
SetTimeout(timers, delay) ==
    [pending |-> TRUE,
     remaining |-> IF delay < 1 \/ delay > MaxInt THEN 1 ELSE delay,
     others |-> IF timers.pending THEN Append(timers.others, timers.remaining)
                ELSE timers.others]

\* The fields finish / waitOrFinish / handleMessage work on.
Self ==
    [messages |-> messages, existingSignatures |-> existingSignatures,
     lastMessageArrivalTime |-> lastMessageArrivalTime,
     nextMessageArrivalTimeout |-> nextMessageArrivalTimeout,
     finished |-> finished, didPromise |-> didPromise]

Contains(seq, x) == \E i \in 1..Len(seq) : seq[i] = x

matchesSearchCriteria(message) == TRUE

\* handleMessage without the look-up in existingSignatures
handleMessageNoDedup(self, envelope) ==
    IF ~matchesSearchCriteria(open(envelope))
    THEN [self EXCEPT !.lastMessageArrivalTime = FromInt(now)]
    ELSE [self EXCEPT !.lastMessageArrivalTime = FromInt(now),
                      !.existingSignatures = Append(@, getSignature(envelope)),
                      !.messages = Append(@, envelope)]

handleMessage(self, envelope) ==
    IF ~matchesSearchCriteria(open(envelope))
    THEN [self EXCEPT !.lastMessageArrivalTime = FromInt(now)]
    ELSE IF Contains(self.existingSignatures, getSignature(envelope))
    THEN [self EXCEPT !.lastMessageArrivalTime = FromInt(now)]
    ELSE [self EXCEPT !.lastMessageArrivalTime = FromInt(now),
                      !.existingSignatures = Append(@, getSignature(envelope)),
                      !.messages = Append(@, envelope)]

RECURSIVE HandleMessages(_, _)
HandleMessages(self, envelopes) ==
    IF envelopes = <<>> THEN self
    ELSE Bind(handleMessage(self, Head(envelopes)),
              LAMBDA handled : HandleMessages(handled, Tail(envelopes)))

\* The callback HcsDid.resolve() registers with whenFinished: it builds the
\* document from the messages and fulfils the promise; a settled promise
\* stays as it is.
Settle(promise, outcome) == IF promise = "pending" THEN outcome ELSE promise

finish(self) ==
    IF resultsHandler
    THEN [self EXCEPT !.finished = Append(@, self.messages),
                      !.didPromise = Settle(@, "fulfilled"),
                      !.nextMessageArrivalTimeout = clearTimeout(@)]
    ELSE [self EXCEPT !.nextMessageArrivalTimeout = clearTimeout(@)]

\* waitOrFinish without its clearTimeout: the wake-up scheduled before stays.
waitOrFinishNoClear(self) ==
    LET timeDiff == FromInt(now) - self.lastMessageArrivalTime
    IN  IF timeDiff <= noMoreMessagesTimeout
        THEN [self EXCEPT !.nextMessageArrivalTimeout =
                               SetTimeout(@, noMoreMessagesTimeout - timeDiff)]
        ELSE finish(self)

waitOrFinish(self) ==
    LET timeDiff == FromInt(now) - self.lastMessageArrivalTime
    IN  IF timeDiff <= noMoreMessagesTimeout
        THEN [self EXCEPT !.nextMessageArrivalTimeout =
                               SetTimeout(clearTimeout(@), noMoreMessagesTimeout - timeDiff)]
        ELSE finish(self)

\* The listener as execute() configures it: never ignoring errors, and always
\* with an error handler (the resolver's, or one that logs to the console).
ResolverListenerCfg ==
    [NoListenerCfg EXCEPT !.topicId = ListenerTopic, !.errorHandler = TRUE,
                          !.ignoreErrors = FALSE]

\* execute() from the answer of the mirror to its end; run is what subscribe() did.
ResumeAfter(run) ==
    Bind(HandleMessages([Self EXCEPT !.didPromise =
                            IF listenerErrorHandler = "reject" /\ run.errors > 0
                            THEN Settle(@, "rejected") ELSE @],
                        run.received),
         LAMBDA received :
             IF run.thrown
             THEN [received EXCEPT !.didPromise =
                      IF errorHandler = "reject" THEN Settle(@, "rejected") ELSE @]
             ELSE waitOrFinish([received EXCEPT !.lastMessageArrivalTime = FromInt(now)]))

\* number of calls of a user's error handler while execute() resumes
ErrorHandlerCalls(run) ==
    (IF listenerErrorHandler = "user" THEN run.errors ELSE 0)
        + (IF run.thrown /\ errorHandler = "user" THEN 1 ELSE 0)

Assign(result) ==
    \E self \in {result} :
    /\ messages' = self.messages
    /\ existingSignatures' = self.existingSignatures
    /\ lastMessageArrivalTime' = self.lastMessageArrivalTime
    /\ nextMessageArrivalTimeout' = self.nextMessageArrivalTimeout
    /\ finished' = self.finished
    /\ didPromise' = self.didPromise

(***************************************************************************)
(* Spec: one resolver instance on ListenerTopic, driven through its public *)
(* methods either by a user, who configures it before the first execute(), *)
(* or by HcsDid.resolve(); the mirror answers each fetch at some later     *)
(* time; the clock ticks; the wake-up timer fires when it is due.          *)
(***************************************************************************)
MaxExecutes == 2

UnsignedOwnerEntry == [OwnerCreateEntry EXCEPT !.signature = Null]

\* What the mirror may answer: an empty topic, an Owner Create, an entry that
\* is no JSON followed by an Owner Create, an Owner Create delivered again
\* after another entry, two different entries without signature, or a
\* failure of the request.
ResolverFetches ==
    {[status |-> "ok", messages |-> m] :
        m \in {<<>>, <<OwnerCreateEntry>>, <<NotJsonEntry, OwnerCreateEntry>>,
               <<OwnerCreateEntry, KeyCreateEntry, OwnerCreateEntry>>,
               <<UnsignedEntry, UnsignedOwnerEntry>>}}
        \cup {[status |-> "networkError", messages |-> <<>>]}

Words == MinInt..MaxInt

\* new HcsDidEventMessageResolver(topicId, baseUrl) at clock reading t
Constructed(t) ==
    /\ rStage = "live"
    /\ now = t
    /\ messages = <<>>
    /\ existingSignatures = <<>>
    /\ lastMessageArrivalTime = FromInt(t)
    /\ nextMessageArrivalTimeout = NoTimer
    /\ noMoreMessagesTimeout = DEFAULT_TIMEOUT
    /\ resultsHandler = FALSE
    /\ errorHandler = "none"
    /\ listenerErrorHandler = "none"
    /\ calls = <<>>
    /\ finished = <<>>
    /\ errorCalls = 0
    /\ didPromise = "none"

Init ==
    /\ ParserIdle /\ ListenerIdle /\ OwnerIdle /\ DocIdle /\ UtilIdle /\ TxIdle
    /\ \E t \in Words : Constructed(t)

\* resolver.setTimeout(timeout)
setTimeout ==
    /\ calls = <<>>
    /\ \E timeout \in 1..MaxTimeout : noMoreMessagesTimeout' = timeout
    /\ UNCHANGED <<rStage, now, messages, existingSignatures, lastMessageArrivalTime,
                   nextMessageArrivalTimeout, resultsHandler, errorHandler,
                   listenerErrorHandler, calls, finished, errorCalls, didPromise>>
    /\ UNCHANGED <<parserVars, listenerVars, ownerVars, docVars, utilVars, txVars>>

\* resolver.whenFinished(handler)
whenFinished ==
    /\ calls = <<>>
    /\ resultsHandler' = TRUE
    /\ UNCHANGED <<rStage, now, messages, existingSignatures, lastMessageArrivalTime,
                   nextMessageArrivalTimeout, noMoreMessagesTimeout, errorHandler,
                   listenerErrorHandler, calls, finished, errorCalls, didPromise>>
    /\ UNCHANGED <<parserVars, listenerVars, ownerVars, docVars, utilVars, txVars>>

\* resolver.onError(handler)
onError ==
    /\ calls = <<>>
    /\ errorHandler' = "user"
    /\ UNCHANGED <<rStage, now, messages, existingSignatures, lastMessageArrivalTime,
                   nextMessageArrivalTimeout, noMoreMessagesTimeout, resultsHandler,
                   listenerErrorHandler, calls, finished, errorCalls, didPromise>>
    /\ UNCHANGED <<parserVars, listenerVars, ownerVars, docVars, utilVars, txVars>>

NewCall == [fetch |-> "inflight", promise |-> "pending", response |-> NoFetch]

\* resolver.execute() up to its first await: a failed validation rejects the
\* call; otherwise the signatures are forgotten, the listener is configured
\* and the request is on its way.
execute ==
    /\ didPromise = "none"
    /\ Len(calls) < MaxExecutes
    /\ IF ~resultsHandler
       THEN /\ calls' = Append(calls, [NewCall EXCEPT !.fetch = "none",
                                                        !.promise = "rejected"])
            /\ UNCHANGED <<existingSignatures, listenerErrorHandler>>
       ELSE /\ calls' = Append(calls, NewCall)
            /\ existingSignatures' = <<>>
            /\ listenerErrorHandler' = IF errorHandler = "none" THEN "console"
                                       ELSE errorHandler
    /\ UNCHANGED <<rStage, now, messages, lastMessageArrivalTime,
                   nextMessageArrivalTimeout, noMoreMessagesTimeout, resultsHandler,
                   errorHandler, finished, errorCalls, didPromise>>
    /\ UNCHANGED <<parserVars, listenerVars, ownerVars, docVars, utilVars, txVars>>

\* HcsDid.resolve(): a new resolver with the read timeout, a results handler
\* that fulfils the promise and an error handler that rejects it, executed at once.
HcsDidResolve ==
    /\ didPromise = "none"
    /\ calls = <<>>
    /\ messages' = <<>>
    /\ existingSignatures' = <<>>
    /\ lastMessageArrivalTime' = FromInt(now)
    /\ nextMessageArrivalTimeout' = NoTimer
    /\ noMoreMessagesTimeout' = READ_TOPIC_MESSAGES_TIMEOUT
    /\ resultsHandler' = TRUE
    /\ errorHandler' = "reject"
    /\ listenerErrorHandler' = "reject"
    /\ calls' = <<NewCall>>
    /\ didPromise' = "pending"
    /\ UNCHANGED <<rStage, now, finished, errorCalls>>
    /\ UNCHANGED <<parserVars, listenerVars, ownerVars, docVars, utilVars, txVars>>

\* The mirror answers the fetch of call i and execute() runs to its end: the
\* entries are handled, the arrival time is stamped and waitOrFinish() runs,
\* or the catch block does; the promise of the call is fulfilled either way.
MirrorResponds ==
    \E i \in 1..Len(calls) : \E fetch \in ResolverFetches :
        /\ calls[i].fetch = "inflight"
        /\ \E run \in {subscribe(ResolverListenerCfg, fetch)} :
              /\ Assign(ResumeAfter(run))
              /\ errorCalls' = errorCalls + ErrorHandlerCalls(run)
        /\ calls' = [calls EXCEPT ![i].fetch = IF fetch.status = "ok" THEN "ok" ELSE "failed",
                                  ![i].response = fetch,
                                  ![i].promise = "fulfilled"]
        /\ UNCHANGED <<rStage, now, noMoreMessagesTimeout, resultsHandler, errorHandler,
                       listenerErrorHandler>>
        /\ UNCHANGED <<parserVars, listenerVars, ownerVars, docVars, utilVars, txVars>>

\* The timers that are due: 0 for the one the field refers to, i for others[i].
DueTimers ==
    {i \in 0..Len(nextMessageArrivalTimeout.others) :
        IF i = 0
        THEN nextMessageArrivalTimeout.pending /\ nextMessageArrivalTimeout.remaining = 0
        ELSE nextMessageArrivalTimeout.others[i] = 0}

\* the timers once timer i has fired: it is pending no more
Fired(timers, i) ==
    IF i = 0 THEN [timers EXCEPT !.pending = FALSE]
    ELSE [timers EXCEPT !.others =
             SubSeq(@, 1, i - 1) \o SubSeq(@, i + 1, Len(@))]

\* a wake-up timer is due: its callback runs waitOrFinish()
TimerFire ==
    /\ \E i \in DueTimers :
          Assign(waitOrFinish([Self EXCEPT !.nextMessageArrivalTimeout = Fired(@, i)]))
    /\ UNCHANGED <<rStage, now, noMoreMessagesTimeout, resultsHandler, errorHandler,
                   listenerErrorHandler, calls, errorCalls>>
    /\ UNCHANGED <<parserVars, listenerVars, ownerVars, docVars, utilVars, txVars>>

\* one millisecond passes; a timer that is due fires before the next one does
Tick ==
    /\ rStage = "live"
    /\ DueTimers = {}
    /\ now' = FromInt(now + 1)
    /\ nextMessageArrivalTimeout' =
          [nextMessageArrivalTimeout EXCEPT
              !.remaining = IF nextMessageArrivalTimeout.pending THEN @ - 1 ELSE @,
              !.others = [i \in 1..Len(@) |-> @[i] - 1]]
    /\ UNCHANGED <<rStage, messages, existingSignatures, lastMessageArrivalTime,
                   noMoreMessagesTimeout, resultsHandler, errorHandler,
                   listenerErrorHandler, calls, finished, errorCalls, didPromise>>
    /\ UNCHANGED <<parserVars, listenerVars, ownerVars, docVars, utilVars, txVars>>

Next ==
    \/ setTimeout
    \/ whenFinished
    \/ onError
    \/ execute
    \/ HcsDidResolve
    \/ MirrorResponds
    \/ TimerFire
    \/ Tick

Spec == Init /\ [][Next]_vars

(***************************************************************************)
(* LiveSpec: a resolver with a results handler and any timeout, executed   *)
(* by its user; every fetch is answered, time passes and due timers fire.  *)
(***************************************************************************)
LiveInit ==
    /\ ParserIdle /\ ListenerIdle /\ OwnerIdle /\ DocIdle /\ UtilIdle /\ TxIdle
    /\ rStage = "live"
    /\ now \in Words
    /\ messages = <<>>
    /\ existingSignatures = <<>>
    /\ lastMessageArrivalTime = FromInt(now)
    /\ nextMessageArrivalTimeout = NoTimer
    /\ noMoreMessagesTimeout \in 1..MaxTimeout
    /\ resultsHandler = TRUE
    /\ errorHandler = "none"
    /\ listenerErrorHandler = "none"
    /\ calls = <<>>
    /\ finished = <<>>
    /\ errorCalls = 0
    /\ didPromise = "none"

LiveNext == execute \/ MirrorResponds \/ TimerFire \/ Tick

LiveSpec ==
    /\ LiveInit
    /\ [][LiveNext]_vars
    /\ WF_vars(MirrorResponds)
    /\ WF_vars(TimerFire)
    /\ WF_vars(Tick)

(***************************************************************************)
(* Claims about the resolver (checked under Spec and LiveSpec).            *)
(***************************************************************************)
Signatures(envelopes) == [i \in 1..Len(envelopes) |-> getSignature(envelopes[i])]

NoDuplicates(seq) == \A i, j \in 1..Len(seq) : i # j => seq[i] # seq[j]

\* C1: every list handed to the results handler holds at most one envelope
\* per signature, also when a signature comes again in a later execute() of
\* the same instance.
C1_OneEnvelopePerSignature ==
    \A k \in 1..Len(finished) : NoDuplicates(Signatures(finished[k]))

ValidatedCalls == {i \in 1..Len(calls) : calls[i].fetch # "none"}

InFlight == {i \in 1..Len(calls) : calls[i].fetch = "inflight"}

Quiescent == InFlight = {} /\ ~nextMessageArrivalTimeout.pending

\* C2: once nothing is in progress any more (no fetch in flight, no wake-up
\* pending), the results handler has been called exactly once for every
\* execute() call that passed validation, overlapping or not.
C2_HandlerOncePerExecute ==
    Quiescent => Len(finished) = Cardinality(ValidatedCalls)

\* C3: after the fetch of execute() has been answered and no further message
\* arrives, the results handler is eventually called.
C3_EventuallyFinished ==
    (calls # <<>> /\ InFlight = {} /\ finished = <<>>) ~> (finished # <<>>)

\* C4: when the fetch of an execute() call failed and the resolver has no
\* error handler, the promise of that call is rejected.
C4_FetchFailurePropagates ==
    \A i \in 1..Len(calls) :
        (calls[i].fetch = "failed" /\ errorHandler = "none")
            => calls[i].promise = "rejected"

\* exactly one entry of the answer fails extraction and every other one is valid
OneBadEntry(fetch) ==
    /\ fetch.status = "ok"
    /\ Cardinality({i \in 1..Len(fetch.messages) : ~ExtractBody(fetch.messages[i]).ok}) = 1
    /\ \A i \in 1..Len(fetch.messages) :
          ExtractBody(fetch.messages[i]).ok
              => isValid(open(ExtractBody(fetch.messages[i]).val), ListenerTopic)

\* C5: HcsDid.resolve() on a log with one entry that fails extraction and
\* otherwise valid entries does not reject.
C5_ResolveSkipsBadEntry ==
    (didPromise # "none" /\ calls[1].fetch = "ok" /\ OneBadEntry(calls[1].response))
        => didPromise # "rejected"

\* the envelopes the listener delivered to the receiver for a fetch
DeliveredOf(fetch) == subscribe(ResolverListenerCfg, fetch).received

\* the envelopes of a sequence that open to a message passing the search
\* criteria (an envelope the listener built always opens to its message)
RECURSIVE Matching(_)
Matching(envelopes) ==
    IF envelopes = <<>> THEN <<>>
    ELSE IF matchesSearchCriteria(open(Head(envelopes)))
    THEN <<Head(envelopes)>> \o Matching(Tail(envelopes))
    ELSE Matching(Tail(envelopes))

\* positions of a sequence that no earlier position shares its signature with
FirstOccurrences(envelopes) ==
    {i \in 1..Len(envelopes) :
        \A j \in 1..(i - 1) : getSignature(envelopes[j]) # getSignature(envelopes[i])}

\* the subsequence at a set of positions
RECURSIVE AtPositions(_, _, _)
AtPositions(envelopes, positions, i) ==
    IF i > Len(envelopes) THEN <<>>
    ELSE (IF i \in positions THEN <<envelopes[i]>> ELSE <<>>)
             \o AtPositions(envelopes, positions, i + 1)

KeepFirstOfEachSignature(envelopes) ==
    AtPositions(envelopes, FirstOccurrences(envelopes), 1)

\* C22: within one execute() (a resolver whose execute() ran once), the list
\* handed to the results handler is exactly the sequence of envelopes the
\* listener delivered that open to a non-null message and pass
\* matchesSearchCriteria, in delivery order, with the first envelope of each
\* signature kept and every later one of that signature dropped.
C22_ListIsDedupedDelivery ==
    (Len(calls) = 1 /\ calls[1].fetch = "ok") =>
        \A k \in 1..Len(finished) :
            finished[k] = KeepFirstOfEachSignature(Matching(DeliveredOf(calls[1].response)))

\* a list was handed over after a delivery that repeated a signature
C22_Witness ==
    /\ Len(calls) = 1 /\ calls[1].fetch = "ok"
    /\ finished # <<>>
    /\ Len(finished[1]) = 2
    /\ Len(DeliveredOf(calls[1].response)) = 3

\* positions of the envelopes of a sequence that carry no signature
Unsigned(envelopes) ==
    {i \in 1..Len(envelopes) : getSignature(envelopes[i]) \in {Null, ""}}

Holds(envelopes, envelope) == \E i \in 1..Len(envelopes) : envelopes[i] = envelope

\* C30: every envelope handed to the results handler carries a defined,
\* non-empty signature: a log entry without a signature field is never
\* accumulated, and of two entries with different messages that both lack a
\* signature the second is never dropped as a duplicate of the first.
C30_HandedEnvelopesAreSigned ==
    \A k \in 1..Len(finished) :
        /\ Unsigned(finished[k]) = {}
        /\ (Len(calls) = 1 /\ calls[1].fetch = "ok") =>
              \A i, j \in Unsigned(Matching(DeliveredOf(calls[1].response))) :
                 \E delivered \in {Matching(DeliveredOf(calls[1].response))} :
                    (i < j /\ open(delivered[i]) # open(delivered[j])) =>
                        ~(Holds(finished[k], delivered[i]) /\ ~Holds(finished[k], delivered[j]))

\* C30 as the code behaves: the signature of an extracted envelope is whatever
\* the decoded JSON holds and no step checks it, so the first delivered
\* envelope without signature is accumulated like any other and every later
\* one is dropped as its duplicate, whatever its message.
C30_AsCoded ==
    (Len(calls) = 1 /\ calls[1].fetch = "ok") =>
        \A k \in 1..Len(finished) :
            \E delivered \in {Matching(DeliveredOf(calls[1].response))} :
                /\ Unsigned(delivered) = {} => Unsigned(finished[k]) = {}
                /\ Unsigned(delivered) # {} =>
                      /\ Cardinality(Unsigned(finished[k])) = 1
                      /\ \A i \in Unsigned(delivered) :
                            Holds(finished[k], delivered[i]) <=>
                                (\A j \in Unsigned(delivered) : i <= j)

\* a list was handed over after a delivery of two different unsigned entries
C30_Reached ==
    /\ Len(calls) = 1 /\ calls[1].fetch = "ok"
    /\ calls[1].response.messages = <<UnsignedEntry, UnsignedOwnerEntry>>
    /\ finished # <<>>

\* the wake-up timers that are pending
PendingTimers ==
    (IF nextMessageArrivalTimeout.pending THEN 1 ELSE 0)
        + Len(nextMessageArrivalTimeout.others)

Elapsed == FromInt(now) - lastMessageArrivalTime

\* the wake-up the field refers to, pending for delay milliseconds, and no other
OneWakeUpIn(timers, delay) ==
    timers = [pending |-> TRUE, remaining |-> delay, others |-> <<>>]

\* C18: at a completion check of waitOrFinish (made when a wake-up fires, and
\* at the end of execute(), where nothing has elapsed), finish() is called
\* if and only if the time elapsed since lastMessageArrivalTime is at least
\* the timeout, in particular when it equals the timeout; when less has
\* elapsed, finish() is not called and exactly one wake-up is scheduled, for
\* timeout - elapsed milliseconds.  Checks made after the clock reading
\* wrapped (a negative elapsed time) are left out.
C18_FinishAtTimeout ==
    [][/\ (TimerFire /\ Elapsed >= 0) =>
             IF Elapsed >= noMoreMessagesTimeout
             THEN /\ Len(finished') = Len(finished) + 1
                  /\ PendingTimers' = 0
             ELSE /\ finished' = finished
                  /\ OneWakeUpIn(nextMessageArrivalTimeout',
                                 noMoreMessagesTimeout - Elapsed)
       /\ (MirrorResponds /\ noMoreMessagesTimeout \in 1..MaxInt) =>
             /\ finished' = finished
             /\ OneWakeUpIn(nextMessageArrivalTimeout', noMoreMessagesTimeout)]_vars

\* What the code does: finish() is called only when more than the timeout has
\* elapsed; at exactly the timeout another wake-up is scheduled, for the
\* shortest delay a timer has.
C18_AsCoded ==
    [][(TimerFire /\ Elapsed >= 0) =>
          IF Elapsed > noMoreMessagesTimeout
          THEN /\ Len(finished') = Len(finished) + 1
               /\ PendingTimers' = 0
          ELSE /\ finished' = finished
               /\ OneWakeUpIn(nextMessageArrivalTimeout',
                              IF Elapsed = noMoreMessagesTimeout THEN 1
                              ELSE noMoreMessagesTimeout - Elapsed)]_vars

\* C19: a resolver has at most one pending wake-up timer in every reachable
\* state: scheduling a wake-up cancels the one before, also when execute()
\* is called again while the wake-up of an earlier execute() is pending.
C19_OnePendingWakeUp == PendingTimers <= 1

\* two execute() calls were answered, the second while the wake-up of the
\* first was pending, and one wake-up is pending
C19_Witness ==
    /\ Len(calls) = 2
    /\ \A i \in 1..2 : calls[i].fetch = "ok"
    /\ finished = <<>>
    /\ PendingTimers = 1

\* the one execute() of the resolver met a transport failure, and the
\* resolver has an error handler
FailedWithHandler ==
    /\ Len(calls) = 1
    /\ calls[1].fetch = "failed"
    /\ listenerErrorHandler \in {"user", "reject"}

\* the error handler was called once: a user's handler is counted, the one of
\* HcsDid.resolve() rejects the promise
ErrorHandlerFired ==
    IF listenerErrorHandler = "user" THEN errorCalls = 1 ELSE didPromise = "rejected"

\* C27: when the fetch of an execute() fails with a transport error and the
\* resolver has an error handler, the error handler is called and the results
\* handler is not called afterwards for that execute(): at most one of the
\* two handlers fires per execute().
C27_ErrorOrResultsNotBoth ==
    FailedWithHandler => (ErrorHandlerFired /\ finished = <<>>)

\* What the code does: the error handler is called, execute() goes on to
\* waitOrFinish(), and once the timeout has passed the results handler is
\* called too, with the list gathered so far.
C27_AsCoded ==
    FailedWithHandler =>
        /\ ErrorHandlerFired
        /\ IF Quiescent THEN finished = <<messages>> ELSE finished = <<>>

\* C25: the elapsed time waitOrFinish computes, now - lastMessageArrivalTime,
\* is the number of milliseconds that really passed between the two clock
\* readings (it is 0 or more, and every millisecond that passes adds 1 to
\* it), for every value the clock can have, also when Long.fromInt reduces
\* the readings to a signed word and they lie on different sides of a wrap.
C25_ElapsedIsRealTime ==
    /\ [](rStage = "live" => Elapsed >= 0)
    /\ [][Tick => Elapsed' = Elapsed + 1]_vars

\* What the code computes: the real elapsed time less one whole word when the
\* reduced clock reading wrapped in between.
C25_AsCoded ==
    [][Tick => \/ Elapsed' = Elapsed + 1
               \/ /\ now = MaxInt
                  /\ Elapsed' = Elapsed + 1 - WordSize]_vars

(***************************************************************************)
(* The document assembler (DidDocument), as the specification describes it *)
(* (section 4.6): the envelopes of a topic are folded, in order of         *)
(* arrival, into one document.  The document keeps its owner event, its    *)
(* tombstone, and one keyed collection per target; an entry of a           *)
(* collection is the event that defined it and its revoked flag.           *)
(*                                                                         *)
(* A signature is the key that made it: verify(message, signature,         *)
(* publicKey) is the capability of the specification's section 1.          *)
(***************************************************************************)
Signature(key) == [by |-> key]

verify(envelope, publicKey) == getSignature(envelope) = Signature(publicKey)

EmptyDocument ==
    [owner |-> NoEvent, deleted |-> FALSE, conflict |-> FALSE,
     services |-> <<>>, verificationMethods |-> <<>>, verificationRelationships |-> <<>>]

\* the key of an event in its collection: the id, and for a relationship the
\* pair (id, relationshipType)
EntryKey(event) ==
    IF event.variant = "VerificationRelationship"
    THEN <<event.id, event.relationshipType>>
    ELSE <<event.id>>

\* the fields an event defines
Definition(event) == [event EXCEPT !.action = "none"]

\* position of the entry with this key; 0 when there is none
FindEntry(entries, key) ==
    IF \E i \in 1..Len(entries) : entries[i].key = key
    THEN CHOOSE i \in 1..Len(entries) : entries[i].key = key
    ELSE 0

\* Create: first create wins, later creates are ignored
CreateEntry(entries, event) ==
    IF FindEntry(entries, EntryKey(event)) # 0 THEN entries
    ELSE Append(entries, [key |-> EntryKey(event), def |-> Definition(event),
                          revoked |-> FALSE])

\* Update without the look at the revoked flag: the fields of any existing
\* entry are replaced.
UpdateEntryAlsoRevoked(entries, event) ==
    LET at == FindEntry(entries, EntryKey(event))
    IN  IF at = 0 THEN entries
        ELSE [entries EXCEPT ![at].def = Definition(event)]

\* Update: replaces the fields of an existing entry that is not revoked
UpdateEntry(entries, event) ==
    LET at == FindEntry(entries, EntryKey(event))
    IN  IF at = 0 THEN entries
        ELSE IF entries[at].revoked THEN entries
        ELSE [entries EXCEPT ![at].def = Definition(event)]

\* Revoke: sets the flag; revoking twice, or an unknown id, changes nothing
RevokeEntry(entries, event) ==
    LET at == FindEntry(entries, EntryKey(event))
    IN  IF at = 0 THEN entries
        ELSE [entries EXCEPT ![at].revoked = TRUE]

ApplyToEntries(entries, event) ==
    CASE event.action = "create" -> CreateEntry(entries, event)
      [] event.action = "update" -> UpdateEntry(entries, event)
      [] event.action = "revoke" -> RevokeEntry(entries, event)
      [] OTHER -> entries

\* Owner events: Create establishes the owner and certifies itself; a second
\* Create is the "already registered" conflict; Update replaces the owner
\* when the previous owner key signed it, and is a conflict otherwise.
ApplyOwnerEvent(document, envelope, event) ==
    IF event.action = "create"
    THEN IF document.owner # NoEvent THEN [document EXCEPT !.conflict = TRUE]
         ELSE IF ~verify(envelope, event.publicKey) THEN [document EXCEPT !.conflict = TRUE]
         ELSE [document EXCEPT !.owner = event]
    ELSE IF event.action = "update"
    THEN IF document.owner = NoEvent THEN document
         ELSE IF ~verify(envelope, document.owner.publicKey)
         THEN [document EXCEPT !.conflict = TRUE]
         ELSE [document EXCEPT !.owner = event]
    ELSE document

\* The fold step without the tombstone: a message after a Delete is folded
\* like any other.
processMessageAfterDelete(document, logId, envelope) ==
    LET message == open(envelope)
    IN  IF ~isValid(message, logId) THEN document
        ELSE IF message.operation = DELETE THEN [document EXCEPT !.deleted = TRUE]
        ELSE CASE message.event.variant = "DIDOwner" ->
                    ApplyOwnerEvent(document, envelope, message.event)
               [] message.event.variant = "Service" ->
                    [document EXCEPT !.services = ApplyToEntries(@, message.event)]
               [] message.event.variant = "VerificationMethod" ->
                    [document EXCEPT !.verificationMethods = ApplyToEntries(@, message.event)]
               [] message.event.variant = "VerificationRelationship" ->
                    [document EXCEPT
                        !.verificationRelationships = ApplyToEntries(@, message.event)]
               [] OTHER -> document

\* One step of the fold: a message that does not open to a valid message of
\* this log is dropped; once a Delete was folded nothing more is.
processMessage(document, logId, envelope) ==
    IF document.deleted THEN document
    ELSE processMessageAfterDelete(document, logId, envelope)

RECURSIVE processMessages(_, _, _)
processMessages(document, logId, envelopes) ==
    IF envelopes = <<>> THEN document
    ELSE Bind(processMessage(document, logId, Head(envelopes)),
              LAMBDA folded : processMessages(folded, logId, Tail(envelopes)))

\* DidDocument.hasOwner() and isDeleted()
hasOwner(document) == document.owner # NoEvent /\ ~document.deleted

isDeleted(document) == document.deleted

(***************************************************************************)
(* FoldSpec: a document of ListenerTopic is assembled from a log that      *)
(* grows by any of the sample envelopes, up to MaxFold of them.            *)
(***************************************************************************)
MaxFold == 3

KeyA == PublicKeyFromBytesED25519(Fill(32, 7))
KeyB == PublicKeyFromBytesED25519(<<2>> \o Fill(31, 5))

OwnerEventOf(action, key) ==
    HcsDidCreateDidOwnerEvent(action, "did:T1#did-root-key", "did:T1", key,
                              ED25519_KEY_TYPE).val

MethodEventOf(action, id, key) ==
    HcsDidCreateVerificationMethodEvent(action, id, "did:T1", key, ED25519_KEY_TYPE).val

RelationshipEventOf(action, relationshipType, key) ==
    HcsDidCreateVerificationRelationshipEvent(action, "did:T1#key-1", relationshipType,
                                              "did:T1", key, ED25519_KEY_TYPE).val

ServiceEventOf(action, endpoint) ==
    ServiceFromJsonTree(action,
        [AbsentTree EXCEPT !.id = "did:T1#service-1", !.type = "LinkedDomains",
                           !.serviceEndpoint = endpoint]).val

RevokeEventOf(target, relationshipType) ==
    RevokeFromJsonTree(target,
        [AbsentTree EXCEPT !.id = "did:T1#key-1",
                           !.relationshipType = relationshipType]).val

\* an envelope of the log: the message of an event, signed with a key
Signed(operation, did, event, key) ==
    MessageEnvelope(HcsDidMessage(operation, did, event), Signature(key))

MethodCreate == Signed("create", GoodDid, MethodEventOf("create", "did:T1#key-1", KeyA), KeyA)
MethodUpdate == Signed("update", GoodDid, MethodEventOf("update", "did:T1#key-1", KeyB), KeyA)
MethodRevoke == Signed("revoke", GoodDid, RevokeEventOf("VerificationMethod", Null), KeyA)
DocumentDelete == Signed(DELETE, GoodDid, HcsDidDeleteEvent, KeyA)
OwnerCreate == Signed("create", GoodDid, OwnerEventOf("create", KeyA), KeyA)

SampleEnvelopes ==
    {OwnerCreate,
     Signed("create", GoodDid, OwnerEventOf("create", KeyB), KeyB),
     Signed("update", GoodDid, OwnerEventOf("update", KeyB), KeyA),
     Signed("update", GoodDid, OwnerEventOf("update", KeyB), KeyB),
     MethodCreate,
     Signed("create", GoodDid, MethodEventOf("create", "did:T1#key-1", KeyB), KeyA),
     Signed("create", OtherTopicDid, MethodEventOf("create", "did:T1#key-2", KeyA), KeyA),
     MethodUpdate,
     MethodRevoke,
     Signed("create", GoodDid, RelationshipEventOf("create", "authentication", KeyA), KeyA),
     Signed("create", GoodDid, RelationshipEventOf("create", "assertionMethod", KeyA), KeyA),
     Signed("update", GoodDid, RelationshipEventOf("update", "authentication", KeyB), KeyA),
     Signed("revoke", GoodDid, RevokeEventOf("VerificationRelationship", "authentication"),
            KeyA),
     Signed("create", GoodDid, ServiceEventOf("create", "https://one.example"), KeyA),
     Signed("update", GoodDid, ServiceEventOf("update", "https://two.example"), KeyA),
     Signed("revoke", GoodDid, ServiceEventOf("revoke", Null), KeyA),
     Signed("create", GoodDid, HcsDidEmptyEvent, KeyA),
     DocumentDelete}

FoldInit ==
    /\ ParserIdle /\ ListenerIdle /\ ResolverIdle /\ OwnerIdle /\ UtilIdle /\ TxIdle
    /\ dStage = "folding"
    /\ dLog = <<>>
    /\ dDoc = EmptyDocument

\* the next envelope of the log is folded into the document
FoldMessage ==
    /\ dStage = "folding"
    /\ Len(dLog) < MaxFold
    /\ \E envelope \in SampleEnvelopes :
          /\ dLog' = Append(dLog, envelope)
          /\ dDoc' = processMessage(dDoc, ListenerTopic, envelope)
    /\ UNCHANGED dStage
    /\ UNCHANGED <<parserVars, listenerVars, resolverVars, ownerVars, utilVars, txVars>>

FoldNext == FoldMessage

FoldSpec == FoldInit /\ [][FoldNext]_vars

\* the document after the first k envelopes of the log
FoldedAfter(k) == processMessages(EmptyDocument, ListenerTopic, SubSeq(dLog, 1, k))

\* C13: once a Delete message has been folded, no later message of the fold
\* (a later owner Create included) changes the document, and isDeleted()
\* stays true: the document after the whole log is the document as it was
\* right after the Delete.
C13_TombstoneDominates ==
    \A k \in 0..Len(dLog) :
        isDeleted(FoldedAfter(k)) => (dDoc = FoldedAfter(k) /\ isDeleted(dDoc))

\* a Delete was folded and an owner Create came after it
C13_Witness ==
    /\ isDeleted(dDoc)
    /\ \E i, j \in 1..Len(dLog) :
          /\ i < j
          /\ dLog[i] = DocumentDelete
          /\ dLog[j] = OwnerCreate

\* every revoked entry of old is in new, at its place, unchanged
RevokedKept(old, new) ==
    \A i \in 1..Len(old) : old[i].revoked => (i <= Len(new) /\ new[i] = old[i])

\* C14: once an entry of a keyed collection (service, verification method,
\* verification relationship) is revoked, no later message of the fold
\* changes its fields or its flag; Create, Revoke, Update of one verification
\* method end with the method present, revoked, and as the Create defined it.
C14_RevokedStaysAsItWas ==
    /\ \A k \in 0..Len(dLog) :
          /\ RevokedKept(FoldedAfter(k).services, dDoc.services)
          /\ RevokedKept(FoldedAfter(k).verificationMethods, dDoc.verificationMethods)
          /\ RevokedKept(FoldedAfter(k).verificationRelationships,
                         dDoc.verificationRelationships)
    /\ dLog = <<MethodCreate, MethodRevoke, MethodUpdate>>
          => dDoc.verificationMethods =
                <<[key |-> <<"did:T1#key-1">>,
                   def |-> Definition(open(MethodCreate).event),
                   revoked |-> TRUE]>>

\* Create, Revoke, Update of one verification method have been folded
C14_Witness ==
    /\ dLog = <<MethodCreate, MethodRevoke, MethodUpdate>>
    /\ Len(dDoc.verificationMethods) = 1
    /\ dDoc.verificationMethods[1].revoked

(***************************************************************************)
(* UtilSpec: one call of a pure utility function (key type detection,      *)
(* multicodec prefixes, HcsDid.parseIdentifier) on any of the sample       *)
(* arguments.                                                              *)
(***************************************************************************)
\* Byte arrays of every length around the key lengths and the prefix length,
\* with first bytes around the point prefixes and the multicodec prefixes.
SampleLengths == {1, 2, 3, 31, 32, 33, 34, 64, 65, 66}
SampleFirstBytes == {0, 2, 3, 4, 231, 237}

SampleByteArrays ==
    {<<>>}
    \cup {<<b>> \o Fill(n - 1, 7) : b \in SampleFirstBytes, n \in SampleLengths}
    \cup {MULTICODECS[c] \o Fill(n, 7) : c \in DOMAIN MULTICODECS, n \in {0, 1, 32, 33}}
    \cup {<<MULTICODECS[c][1], 2>> \o Fill(n, 7) : c \in DOMAIN MULTICODECS, n \in {0, 32}}

SampleCodecs == DOMAIN MULTICODECS \cup {"bogus"}

\* Identifier strings: every combination of good and bad segments.
SampleIdentifiers ==
    [prefix : {"did", "dix"},
     method : {"hedera", "web"},
     network : HederaNetworks \cup {"devnet", Null},
     idString : {Ed25519IdString,
                 [Ed25519IdString EXCEPT !.chars = MinIdStringLength],
                 [Ed25519IdString EXCEPT !.chars = MinIdStringLength - 1],
                 [chars |-> 0, text |-> NoMultibase]},
     extra : {Null, "", "extra"},
     topic : {Null, "0.0.1", "0.0.x"}]

NoCall ==
    [fn |-> Null, codec |-> Null, bytes |-> <<>>, identifier |-> NoIdentifier,
     publicKey |-> NoKey, keyType |-> Null, network |-> Null, topicId |-> Null]

\* Public keys as the ledger SDK hands them out, one uncompressed Secp256k1
\* key (as read from foreign bytes) and one key of no supported length.
UncompressedSecp256k1Key == [curve |-> "ECDSA", raw |-> <<4>> \o Fill(64, 9)]
IdStringKeys == Ed25519Keys \cup Secp256k1Keys \cup MalformedKeys \cup {UncompressedSecp256k1Key}
IdStringKeyTypes == {"Ed25519", "Secp256k1", "ed25519", "secp256k1", "RSA"}

\* The network argument of the HcsDid constructor is not validated.
ConstructorNetworks == HederaNetworks \cup {"devnet"}

UtilCalls ==
    {[NoCall EXCEPT !.fn = "detectKeyType", !.bytes = b] : b \in SampleByteArrays}
    \cup {[NoCall EXCEPT !.fn = f, !.codec = c, !.bytes = b] :
            f \in {"removeMulticodecPrefix", "addThenRemove"},
            c \in SampleCodecs, b \in SampleByteArrays}
    \cup {[NoCall EXCEPT !.fn = "parseIdentifier", !.identifier = i] :
            i \in SampleIdentifiers}
    \cup {[NoCall EXCEPT !.fn = "idStringRoundTrip", !.publicKey = k, !.keyType = t] :
            k \in IdStringKeys, t \in IdStringKeyTypes}
    \cup {[NoCall EXCEPT !.fn = "buildThenParse", !.publicKey = k, !.network = n,
                         !.topicId = t] :
            k \in Ed25519Keys \cup Secp256k1Keys, n \in ConstructorNetworks,
            t \in WellFormedTopicIds}

UtilInit ==
    /\ ParserIdle /\ ListenerIdle /\ ResolverIdle /\ OwnerIdle /\ DocIdle /\ TxIdle
    /\ uStage = "input"
    /\ uCall \in UtilCalls
    /\ uResult = Null

\* detectKeyTypeFromPublicKey(key) and detectKeyTypeFromPublicKeyBytes(bytes)
\* for a key whose raw bytes are bytes
CallDetectKeyType ==
    /\ uStage = "input"
    /\ uCall.fn = "detectKeyType"
    /\ uResult' =
          [fromPublicKey |->
                detectKeyTypeFromPublicKey([curve |-> "any", raw |-> uCall.bytes]),
           fromBytes |-> detectKeyTypeFromPublicKeyBytes(uCall.bytes)]
    /\ uStage' = "done"
    /\ UNCHANGED uCall
    /\ UNCHANGED <<parserVars, listenerVars, resolverVars, ownerVars, docVars, txVars>>

\* removeMulticodecPrefix(codec, bytes)
CallRemoveMulticodecPrefix ==
    /\ uStage = "input"
    /\ uCall.fn = "removeMulticodecPrefix"
    /\ uResult' = removeMulticodecPrefix(uCall.codec, uCall.bytes)
    /\ uStage' = "done"
    /\ UNCHANGED uCall
    /\ UNCHANGED <<parserVars, listenerVars, resolverVars, ownerVars, docVars, txVars>>

\* removeMulticodecPrefix(codec, addMulticodecPrefix(codec, bytes))
CallAddThenRemove ==
    /\ uStage = "input"
    /\ uCall.fn = "addThenRemove"
    /\ uResult' = Bind(addMulticodecPrefix(uCall.codec, uCall.bytes), LAMBDA added :
                      IF ~added.ok THEN Err
                      ELSE removeMulticodecPrefix(uCall.codec, added.val))
    /\ uStage' = "done"
    /\ UNCHANGED uCall
    /\ UNCHANGED <<parserVars, listenerVars, resolverVars, ownerVars, docVars, txVars>>

\* HcsDid.parseIdentifier(identifier)
CallParseIdentifier ==
    /\ uStage = "input"
    /\ uCall.fn = "parseIdentifier"
    /\ uResult' = parseIdentifier(uCall.identifier)
    /\ uStage' = "done"
    /\ UNCHANGED uCall
    /\ UNCHANGED <<parserVars, listenerVars, resolverVars, ownerVars, docVars, txVars>>

\* HcsDid.stringToPublicKey(HcsDid.publicKeyToIdString(publicKey, keyType))
CallIdStringRoundTrip ==
    /\ uStage = "input"
    /\ uCall.fn = "idStringRoundTrip"
    /\ uResult' = Bind(publicKeyToIdString(uCall.publicKey, uCall.keyType), LAMBDA idString :
                      [idString |-> idString,
                       publicKey |-> IF ~idString.ok THEN Err
                                     ELSE stringToPublicKey(idString.val)])
    /\ uStage' = "done"
    /\ UNCHANGED uCall
    /\ UNCHANGED <<parserVars, listenerVars, resolverVars, ownerVars, docVars, txVars>>

\* register() of new HcsDid({ network, privateKey }) builds the identifier
\* once the topic exists; HcsDid.parsePublicKeyFromIdentifier reads it back.
CallBuildThenParse ==
    /\ uStage = "input"
    /\ uCall.fn = "buildThenParse"
    /\ uResult' = Bind(buildIdentifier(
                          [keyType |-> detectKeyTypeFromPublicKey(uCall.publicKey).val,
                           network |-> uCall.network, topicId |-> uCall.topicId],
                          uCall.publicKey), LAMBDA identifier :
                      [identifier |-> identifier,
                       publicKey |-> IF ~identifier.ok THEN Err
                                     ELSE parsePublicKeyFromIdentifier(identifier.val)])
    /\ uStage' = "done"
    /\ UNCHANGED uCall
    /\ UNCHANGED <<parserVars, listenerVars, resolverVars, ownerVars, docVars, txVars>>

UtilNext ==
    \/ CallDetectKeyType
    \/ CallRemoveMulticodecPrefix
    \/ CallAddThenRemove
    \/ CallParseIdentifier
    \/ CallIdStringRoundTrip
    \/ CallBuildThenParse

UtilSpec == UtilInit /\ [][UtilNext]_vars

UtilDone(fn) == uStage = "done" /\ uCall.fn = fn

\* The keys an identifier can carry, with the name of their type: an Ed25519
\* key of 32 bytes, a compressed Secp256k1 key of 33 bytes.
SupportedIdStringKey(publicKey, keyType) ==
    \/ /\ publicKey.curve = "ED25519"
       /\ Len(toBytesRaw(publicKey)) = Ed25519KeyLen
       /\ toLowerCase(keyType) = "ed25519"
    \/ /\ publicKey.curve = "ECDSA"
       /\ Len(toBytesRaw(publicKey)) = Secp256k1CompressedLen
       /\ toBytesRaw(publicKey)[1] \in {2, 3}
       /\ toLowerCase(keyType) = "secp256k1"

IdStringRoundTrips ==
    (UtilDone("idStringRoundTrip") /\ SupportedIdStringKey(uCall.publicKey, uCall.keyType)) =>
        uResult.publicKey = Ok(uCall.publicKey)

C29_AsCoded ==
    /\ IdStringRoundTrips
    /\ UtilDone("buildThenParse") =>
          /\ uResult.identifier.ok
          /\ stringToPublicKey(uResult.identifier.val.idString.text) = Ok(uCall.publicKey)
          /\ uResult.identifier.val.idString.chars >= MinIdStringLength
          /\ IF uCall.network \in HederaNetworks
             THEN uResult.publicKey = Ok(uCall.publicKey)
             ELSE ~uResult.publicKey.ok

\* The identifiers the identifier format excludes: no topic part, a prefix
\* other than "did", a method other than "hedera", an unknown network, a key
\* segment of fewer than 44 characters, or a further ':' segment.
MalformedIdentifier(identifier) ==
    \/ identifier.topic = Null
    \/ identifier.prefix # DID_PREFIX
    \/ identifier.method # HEDERA_HCS
    \/ identifier.network \notin HederaNetworks
    \/ identifier.idString.chars < MinIdStringLength
    \/ identifier.extra # Null

\* C12: parseIdentifier fails for every identifier that lacks the topic
\* suffix, has a wrong prefix, method or network, a key segment shorter than
\* 44 characters, or an extra ':' segment; when it returns, it returns the
\* complete triple (network, topic id, key string) of the identifier.
C12_ParseIdentifierStrict ==
    UtilDone("parseIdentifier") =>
        /\ MalformedIdentifier(uCall.identifier) => ~uResult.ok
        /\ uResult.ok =>
              uResult.val = [networkName |-> uCall.identifier.network,
                             topicId |-> uCall.identifier.topic,
                             didIdString |-> uCall.identifier.idString]

\* What the code does: as C12 says, but a further segment that is empty (a ':'
\* right before the '_') is not noticed.
C12_AsCoded ==
    UtilDone("parseIdentifier") =>
        /\ (MalformedIdentifier(uCall.identifier) /\ uCall.identifier.extra # "")
              => ~uResult.ok
        /\ (MalformedIdentifier([uCall.identifier EXCEPT !.extra = Null])
              => ~uResult.ok)
        /\ uResult.ok =>
              uResult.val = [networkName |-> uCall.identifier.network,
                             topicId |-> uCall.identifier.topic,
                             didIdString |-> uCall.identifier.idString]

\* The key type the lengths and first bytes of a key stand for.
KeyTypeOfBytes(bytes) ==
    IF Len(bytes) = 32 THEN Ok("Ed25519")
    ELSE IF Len(bytes) = 33 /\ bytes[1] \in {2, 3} THEN Ok("Secp256k1")
    ELSE IF Len(bytes) = 65 /\ bytes[1] = 4 THEN Ok("Secp256k1")
    ELSE Err

\* C15: key type detection returns Ed25519 exactly for keys of 32 bytes,
\* Secp256k1 exactly for keys of 33 bytes starting 0x02/0x03 and of 65 bytes
\* starting 0x04, and throws for every other byte sequence;
\* detectKeyTypeFromPublicKey and detectKeyTypeFromPublicKeyBytes agree.
C15_KeyTypeDetection ==
    UtilDone("detectKeyType") =>
        /\ uResult.fromBytes = KeyTypeOfBytes(uCall.bytes)
        /\ uResult.fromPublicKey = uResult.fromBytes

\* detection threw for a key of 31 bytes
C15_Witness ==
    /\ UtilDone("detectKeyType")
    /\ Len(uCall.bytes) = 31
    /\ uResult = [fromPublicKey |-> Err, fromBytes |-> Err]

\* data starts with the two prefix bytes of the codec
HasPrefix(codec, data) ==
    /\ Len(data) >= Len(MULTICODECS[codec])
    /\ \A i \in 1..Len(MULTICODECS[codec]) : data[i] = MULTICODECS[codec][i]

\* C16: removeMulticodecPrefix throws for every data that does not start with
\* exactly the two prefix bytes of the codec, data shorter than the prefix
\* included, and otherwise returns data without the prefix; removing the
\* prefix that addMulticodecPrefix added returns the bytes given.
C16_RemovePrefixStrict ==
    /\ (UtilDone("removeMulticodecPrefix") /\ uCall.codec \in DOMAIN MULTICODECS) =>
          IF HasPrefix(uCall.codec, uCall.bytes)
          THEN uResult = Ok(SubSeq(uCall.bytes, 3, Len(uCall.bytes)))
          ELSE uResult = Err
    /\ (UtilDone("addThenRemove") /\ uCall.codec \in DOMAIN MULTICODECS) =>
          uResult = Ok(uCall.bytes)

\* What the code does: data shorter than the prefix passes when its bytes
\* are the first bytes of the prefix, and the result is the empty array.
C16_AsCoded ==
    /\ (UtilDone("removeMulticodecPrefix") /\ uCall.codec \in DOMAIN MULTICODECS) =>
          IF HasPrefix(uCall.codec, uCall.bytes)
          THEN uResult = Ok(SubSeq(uCall.bytes, 3, Len(uCall.bytes)))
          ELSE IF uCall.bytes = <<>> \/ uCall.bytes = <<MULTICODECS[uCall.codec][1]>>
          THEN uResult = Ok(<<>>)
          ELSE uResult = Err
    /\ (UtilDone("addThenRemove") /\ uCall.codec \in DOMAIN MULTICODECS) =>
          uResult = Ok(uCall.bytes)

(***************************************************************************)
(* OwnerSpec: one HcsDid instance built from a private key, with or        *)
(* without the identifier of an existing topic, and the topic it writes    *)
(* to.  register(), changeOwner() and delete() are followed through their  *)
(* awaits; a message on the topic is kept with the key that signed it.     *)
(***************************************************************************)
OwnerKeys == {"key-A", "key-B", "key-C"}
Controllers == {"did:T1", "did:T2"}
MaxTopicLen == 3

NoChangeArgs == [controller |-> Null, newPrivateKey |-> Null]

\* HcsDid.submitTransaction(didMethodOperation, event, privateKey): the
\* message and the transaction are signed with the key passed in.
submitTransaction(didMethodOperation, event, signingKey) ==
    [operation |-> didMethodOperation, owner |-> event.owner,
     controller |-> event.controller, signedBy |-> signingKey,
     heldBefore |-> oHeldBefore]

\* The envelope of a message of the topic: an owner event, or the Delete.
TopicEnvelope(entry) ==
    MessageEnvelope(
        HcsDidMessage(entry.operation, GoodDid,
            IF entry.operation = DELETE THEN HcsDidDeleteEvent
            ELSE [BlankEvent EXCEPT !.variant = "DIDOwner", !.action = entry.operation,
                                    !.id = "did:T1#did-root-key",
                                    !.controller = entry.controller,
                                    !.publicKey = entry.owner]),
        Signature(entry.signedBy))

\* this.document after "await this.resolve()": the fold of the topic
Resolved(topic) ==
    processMessages(EmptyDocument, ListenerTopic,
                    [i \in 1..Len(topic) |-> TopicEnvelope(topic[i])])

\* the owner Create message register() submits
OwnerCreateMessage(key) ==
    [submitTransaction("create", [owner |-> key, controller |-> "did:T1"], key)
        EXCEPT !.heldBefore = key]

\* register() after its resolve(), with the check of the owner left out
registerWithoutOwnerCheck(document, topic, key) ==
    [thrown |-> FALSE, topic |-> Append(topic, OwnerCreateMessage(key))]

\* register() of an instance with an identifier, after "await this.resolve()":
\* "DID is already registered" when the document has an owner, the owner
\* Create message otherwise; no topic is created on this branch.
registerAfterResolve(document, topic, key) ==
    IF hasOwner(document) THEN [thrown |-> TRUE, topic |-> topic]
    ELSE [thrown |-> FALSE, topic |-> Append(topic, OwnerCreateMessage(key))]

OwnerInit ==
    /\ ParserIdle /\ ListenerIdle /\ ResolverIdle /\ DocIdle /\ UtilIdle /\ TxIdle
    /\ oStage = "ready"
    /\ privateKey \in OwnerKeys
    /\ oArgs = NoChangeArgs
    /\ oHeldBefore = Null
    /\ \/ /\ oRegistered = FALSE            \* new HcsDid({ privateKey })
          /\ oTopicKeys = Null
          /\ oTopic = <<>>
       \/ /\ oRegistered = TRUE             \* new HcsDid({ identifier, privateKey })
          /\ oTopicKeys \in OwnerKeys
          /\ oTopic \in {<<>>, <<OwnerCreateMessage(oTopicKeys)>>}

\* register() of an instance without identifier: the topic is created with
\* the instance's key and the owner Create message is submitted.
register ==
    /\ oStage = "ready"
    /\ ~oRegistered
    /\ privateKey # Null
    /\ oTopicKeys' = privateKey
    /\ oRegistered' = TRUE
    /\ oTopic' = Append(oTopic, OwnerCreateMessage(privateKey))
    /\ UNCHANGED <<oStage, privateKey, oArgs, oHeldBefore>>
    /\ UNCHANGED <<parserVars, listenerVars, resolverVars, docVars, utilVars, txVars>>

\* register() of an instance with an identifier, up to "await this.resolve()"
registerCall ==
    /\ oStage = "ready"
    /\ oRegistered
    /\ privateKey # Null
    /\ Len(oTopic) < MaxTopicLen
    /\ oStage' = "registerResolving"
    /\ UNCHANGED <<privateKey, oRegistered, oArgs, oHeldBefore, oTopicKeys, oTopic>>
    /\ UNCHANGED <<parserVars, listenerVars, resolverVars, docVars, utilVars, txVars>>

\* resolve() returned: register() throws or submits the owner Create message
registerResolved ==
    /\ oStage = "registerResolving"
    /\ \E outcome \in {registerAfterResolve(Resolved(oTopic), oTopic, privateKey)} :
          /\ oTopic' = outcome.topic
          /\ oStage' = IF outcome.thrown THEN "alreadyRegistered" ELSE "ready"
    /\ UNCHANGED <<privateKey, oRegistered, oArgs, oHeldBefore, oTopicKeys>>
    /\ UNCHANGED <<parserVars, listenerVars, resolverVars, docVars, utilVars, txVars>>

\* the caller sees "DID is already registered" and goes on with the instance
registerThrown ==
    /\ oStage = "alreadyRegistered"
    /\ oStage' = "ready"
    /\ UNCHANGED <<privateKey, oRegistered, oArgs, oHeldBefore, oTopicKeys, oTopic>>
    /\ UNCHANGED <<parserVars, listenerVars, resolverVars, docVars, utilVars, txVars>>

\* delete()
delete ==
    /\ oStage = "ready"
    /\ oRegistered
    /\ privateKey # Null
    /\ Len(oTopic) < MaxTopicLen
    /\ oTopic' = Append(oTopic, [submitTransaction("delete",
                                    [owner |-> Null, controller |-> Null],
                                    privateKey) EXCEPT !.heldBefore = privateKey])
    /\ UNCHANGED <<oStage, privateKey, oRegistered, oArgs, oHeldBefore, oTopicKeys>>
    /\ UNCHANGED <<parserVars, listenerVars, resolverVars, docVars, utilVars, txVars>>

\* changeOwner(args) up to "await this.resolve()": the argument checks
changeOwnerCall ==
    /\ oStage = "ready"
    /\ Len(oTopic) < MaxTopicLen
    /\ \E controller \in Controllers, newPrivateKey \in OwnerKeys \cup {Null} :
          /\ oArgs' = [controller |-> controller, newPrivateKey |-> newPrivateKey]
          /\ oStage' = IF ~oRegistered \/ privateKey = Null \/ newPrivateKey = Null
                       THEN "thrown" ELSE "resolving"
    /\ oHeldBefore' = privateKey
    /\ UNCHANGED <<privateKey, oRegistered, oTopicKeys, oTopic>>
    /\ UNCHANGED <<parserVars, listenerVars, resolverVars, docVars, utilVars, txVars>>

\* resolve() returned, or it failed: a failure, and a document without owner,
\* end the call
changeOwnerResolved ==
    /\ oStage = "resolving"
    /\ \E failed \in BOOLEAN :
          oStage' = IF ~failed /\ hasOwner(Resolved(oTopic)) THEN "resolved"
                    ELSE "thrown"
    /\ UNCHANGED <<privateKey, oRegistered, oArgs, oHeldBefore, oTopicKeys, oTopic>>
    /\ UNCHANGED <<parserVars, listenerVars, resolverVars, docVars, utilVars, txVars>>

\* the TopicUpdateTransaction, signed with both keys; then this.privateKey
\* is assigned.  A transaction that fails ends the call before the assignment.
changeOwnerTopicUpdate ==
    /\ oStage = "resolved"
    /\ \E failed \in BOOLEAN :
          IF failed
          THEN /\ oStage' = "thrown"
               /\ UNCHANGED <<oTopicKeys, privateKey>>
          ELSE /\ oTopicKeys' = oArgs.newPrivateKey
               /\ privateKey' = oArgs.newPrivateKey
               /\ oStage' = "topicUpdated"
    /\ UNCHANGED <<oRegistered, oArgs, oHeldBefore, oTopic>>
    /\ UNCHANGED <<parserVars, listenerVars, resolverVars, docVars, utilVars, txVars>>

\* the owner Update message is submitted with this.privateKey; a submission
\* that fails ends the call
changeOwnerSubmit ==
    /\ oStage = "topicUpdated"
    /\ \E failed \in BOOLEAN :
          IF failed
          THEN /\ oStage' = "thrown"
               /\ UNCHANGED oTopic
          ELSE /\ oTopic' = Append(oTopic, submitTransaction("update",
                                              [owner |-> oArgs.newPrivateKey,
                                               controller |-> oArgs.controller],
                                              privateKey))
               /\ oStage' = "ready"
    /\ UNCHANGED <<privateKey, oRegistered, oArgs, oHeldBefore, oTopicKeys>>
    /\ UNCHANGED <<parserVars, listenerVars, resolverVars, docVars, utilVars, txVars>>

\* the caller sees the exception and goes on with the instance
changeOwnerThrown ==
    /\ oStage = "thrown"
    /\ oStage' = "ready"
    /\ UNCHANGED <<privateKey, oRegistered, oArgs, oHeldBefore, oTopicKeys, oTopic>>
    /\ UNCHANGED <<parserVars, listenerVars, resolverVars, docVars, utilVars, txVars>>

OwnerNext ==
    \/ register
    \/ registerCall
    \/ registerResolved
    \/ registerThrown
    \/ delete
    \/ changeOwnerCall
    \/ changeOwnerResolved
    \/ changeOwnerTopicUpdate
    \/ changeOwnerSubmit
    \/ changeOwnerThrown

OwnerSpec == OwnerInit /\ [][OwnerNext]_vars

\* C11: register() of an instance with an identifier resolves the log first,
\* and when the resolved document has an owner it fails with "DID is already
\* registered": no topic is created (the topic keys stay as they are) and no
\* message is submitted to the topic.
C11_RegisterRefusesOwnedDid ==
    [][(oStage = "registerResolving" /\ hasOwner(Resolved(oTopic)))
          => /\ oStage' = "alreadyRegistered"
             /\ oTopic' = oTopic
             /\ oTopicKeys' = oTopicKeys]_vars

\* register() was called for a DID whose document has an owner, and threw
C11_Witness ==
    /\ oStage = "alreadyRegistered"
    /\ hasOwner(Resolved(oTopic))

\* C26: when changeOwner() fails at any step (missing identifier, client or
\* key, failed resolve, document without owner, failed topic update, failed
\* submission of the owner Update message), the instance holds the private
\* key it held before the call; the key is the new one only once the whole
\* operation has succeeded.
C26_FailedChangeKeepsKey ==
    oStage = "thrown" => privateKey = oHeldBefore

\* What the code does: the key is assigned once the topic update has its
\* receipt, before the owner Update message is submitted; a failed
\* submission leaves the new key in place.
C26_AsCoded ==
    /\ oStage \in {"resolving", "resolved"} => privateKey = oHeldBefore
    /\ oStage = "topicUpdated" => privateKey = oArgs.newPrivateKey
    /\ (oStage = "thrown" /\ privateKey # oHeldBefore)
          => /\ privateKey = oArgs.newPrivateKey
             /\ oTopicKeys = oArgs.newPrivateKey

\* C10: every owner Update message on the topic is signed with the key the
\* instance held when changeOwner() was called.
C10_UpdateSignedByPreviousKey ==
    \A k \in 1..Len(oTopic) :
        oTopic[k].operation = "update" => oTopic[k].signedBy = oTopic[k].heldBefore

\* What the code does: the Update message is signed with the new owner key.
C10_UpdateSignedByNewKey ==
    \A k \in 1..Len(oTopic) :
        oTopic[k].operation = "update" => oTopic[k].signedBy = oTopic[k].owner


(***************************************************************************)
(* HcsDidTransaction.  execute() is asynchronous: it validates, signs the  *)
(* message if it has no signature, then awaits the built transaction's     *)
(* execute(client) (the submission) and after it the receipt; this.executed*)
(* is set once the receipt is there.  A call record keeps what one         *)
(* execute() call saw and did.                                             *)
(***************************************************************************)
MaxTransactionCalls == 3

\* validate(): no error is recorded
validate ==
    /\ ~executed
    /\ signer \/ messageSignature
    /\ buildTransactionFunction

NewTransactionCall ==
    [executedBefore |-> executed, stage |-> "building", signed |-> FALSE,
     submitted |-> FALSE, errorHandlerCalled |-> FALSE]

\* new HcsDidTransaction(message, topicId), the message signed already or not
TransactionInit ==
    /\ ParserIdle /\ ListenerIdle /\ ResolverIdle /\ OwnerIdle /\ DocIdle /\ UtilIdle
    /\ tStage = "live"
    /\ executed = FALSE
    /\ signer = FALSE
    /\ buildTransactionFunction = FALSE
    /\ transactionErrorHandler = FALSE
    /\ messageSignature \in BOOLEAN
    /\ tCalls = <<>>

TransactionOnError ==
    /\ tStage = "live"
    /\ ~transactionErrorHandler
    /\ transactionErrorHandler' = TRUE
    /\ UNCHANGED <<tStage, executed, signer, buildTransactionFunction, messageSignature,
                   tCalls>>
    /\ UNCHANGED <<parserVars, listenerVars, resolverVars, ownerVars, docVars, utilVars>>

signMessage ==
    /\ tStage = "live"
    /\ ~signer
    /\ signer' = TRUE
    /\ UNCHANGED <<tStage, executed, buildTransactionFunction, transactionErrorHandler,
                   messageSignature, tCalls>>
    /\ UNCHANGED <<parserVars, listenerVars, resolverVars, ownerVars, docVars, utilVars>>

buildAndSignTransaction ==
    /\ tStage = "live"
    /\ ~buildTransactionFunction
    /\ buildTransactionFunction' = TRUE
    /\ UNCHANGED <<tStage, executed, signer, transactionErrorHandler, messageSignature,
                   tCalls>>
    /\ UNCHANGED <<parserVars, listenerVars, resolverVars, ownerVars, docVars, utilVars>>

\* execute(client) up to its first await: validation, then the message is
\* signed if it carries no signature, and the built transaction is awaited
TransactionExecute ==
    /\ tStage = "live"
    /\ Len(tCalls) < MaxTransactionCalls
    /\ IF ~validate
       THEN /\ tCalls' = Append(tCalls, [NewTransactionCall EXCEPT !.stage = "invalid"])
            /\ UNCHANGED messageSignature
       ELSE /\ tCalls' = Append(tCalls,
                             [NewTransactionCall EXCEPT !.signed = ~messageSignature])
            /\ messageSignature' = TRUE
    /\ UNCHANGED <<tStage, executed, signer, buildTransactionFunction,
                   transactionErrorHandler>>
    /\ UNCHANGED <<parserVars, listenerVars, resolverVars, ownerVars, docVars, utilVars>>

\* execute() after an exception inside its try block: handleError, and, when
\* the handler returned, the throw for the undefined transaction id
Caught(call) ==
    [call EXCEPT !.stage = "failed", !.errorHandlerCalled = transactionErrorHandler]

\* the built transaction's execute(client) returns (the message is submitted)
\* or throws
TransactionSubmit ==
    /\ \E i \in 1..Len(tCalls) : \E thrown \in BOOLEAN :
          /\ tCalls[i].stage = "building"
          /\ tCalls' = [tCalls EXCEPT ![i] =
                            IF thrown THEN Caught(@)
                            ELSE [@ EXCEPT !.stage = "submitted", !.submitted = TRUE]]
    /\ UNCHANGED <<tStage, executed, signer, buildTransactionFunction,
                   transactionErrorHandler, messageSignature>>
    /\ UNCHANGED <<parserVars, listenerVars, resolverVars, ownerVars, docVars, utilVars>>

\* response.getReceipt(client) returns, and this.executed is set, or throws
TransactionReceipt ==
    /\ \E i \in 1..Len(tCalls) : \E thrown \in BOOLEAN :
          /\ tCalls[i].stage = "submitted"
          /\ tCalls' = [tCalls EXCEPT ![i] =
                            IF thrown THEN Caught(@) ELSE [@ EXCEPT !.stage = "done"]]
          /\ executed' = IF thrown THEN executed ELSE TRUE
    /\ UNCHANGED <<tStage, signer, buildTransactionFunction, transactionErrorHandler,
                   messageSignature>>
    /\ UNCHANGED <<parserVars, listenerVars, resolverVars, ownerVars, docVars, utilVars>>

TransactionNext ==
    \/ TransactionOnError
    \/ signMessage
    \/ buildAndSignTransaction
    \/ TransactionExecute
    \/ TransactionSubmit
    \/ TransactionReceipt

TransactionSpec == TransactionInit /\ [][TransactionNext]_vars

(***************************************************************************)
(* Claims about HcsDidTransaction (checked under TransactionSpec).         *)
(***************************************************************************)
Submissions == {i \in 1..Len(tCalls) : tCalls[i].submitted}

\* an execute() called after a receipt fails validation, signs and submits nothing
AfterReceiptRefused ==
    \A i \in 1..Len(tCalls) :
        tCalls[i].executedBefore
            => /\ tCalls[i].stage = "invalid"
               /\ ~tCalls[i].signed
               /\ ~tCalls[i].submitted

\* the transaction is executed exactly when some execute() obtained a receipt:
\* failed validation and an exception in the submission leave it not executed
ExecutedOnlyByReceipt ==
    executed <=> \E i \in 1..Len(tCalls) : tCalls[i].stage = "done"

\* C24: an HcsDidTransaction submits its message at most once: an execute()
\* called after one that obtained a receipt fails validation without signing
\* or submitting anything, and an execute() that fails validation or whose
\* submission throws leaves the transaction not executed.
C24_SubmittedAtMostOnce ==
    /\ Cardinality(Submissions) <= 1
    /\ AfterReceiptRefused
    /\ ExecutedOnlyByReceipt

\* What the code does: the refusal after a receipt and the not-executed state
\* after a failure hold; the message is submitted once per execute() that was
\* called before a receipt arrived.
C24_AsCoded ==
    /\ AfterReceiptRefused
    /\ ExecutedOnlyByReceipt
    /\ \A i \in Submissions : ~tCalls[i].executedBefore

=============================================================================
